---- MODULE Spec2Model ----
(***************************************************************************)
(* A model of the veripatch patch-and-prove engine (package pp):           *)
(*   - the unified-diff engine of pp/patch.py over a small file system,    *)
(*   - the session controller of pp/session.py,                            *)
(*   - the attestation module of pp/attest.py.                             *)
(*                                                                         *)
(* Text is modelled by tokens.  A path string is a sequence of tokens      *)
(* ("a", "/", "src", "/", "m.py"); the separator "/" and the backslash are *)
(* tokens of their own, every other token stands for the characters of one *)
(* name.  A line of a file is a record [i, s]: i leading spaces, then s.   *)
(* A line of a diff is a record whose field k is the prefix the parser's   *)
(* startswith tests see.                                                   *)
(***************************************************************************)
EXTENDS Integers, Sequences, FiniteSets, TLC

VARIABLES
    fs,              \* the file system: absolute location -> file content
    policy,          \* the loaded Policy (immutable once loaded)
    sandbox,         \* the Sandbox of the session (its backend fields)
    op,              \* the last diff-engine call: its input, the file system before, its outcome
    workspace,       \* the workspace: whether it is a git repository, and what HEAD holds
    targets,         \* config.proof_targets, in configured order
    pc,              \* where _execute_session stands
    attempt_no,      \* the loop variable of the attempt loop
    attempt_records, \* attempt_records
    previous_errors, \* previous_errors
    previous_diffs,  \* previous_diffs
    proposal,        \* the ProposeOutput of the current attempt
    success,         \* success
    baseline_ok,     \* baseline_ok
    final_result,    \* final_result: the representative CommandResult
    final_patch,     \* the text written to final.patch
    bundle,          \* the files written to the proof bundle, in writing order
    calls,           \* how often the proposer and the proof targets were run
    options,         \* keep_sandbox, attest and attestation_mode as the session was called
    replayed,        \* the outcome of SessionController.replay on the session's bundle
    bundle_dir,      \* a bundle directory handed to pp/attest.py: relative name -> bytes
    environ,         \* os.environ: the value of the signing key variable ("" when unset)
    verdict,         \* the outcome of the last call of pp/attest.py
    created          \* what create_attestation last saw: the files and the key

patchVars == <<fs, policy, sandbox, op>>

sessVars == <<workspace, targets, pc, attempt_no, attempt_records, previous_errors,
              previous_diffs, proposal, success, baseline_ok, final_result, final_patch,
              bundle, calls, options, replayed>>

sessVarsButPc == <<workspace, targets, attempt_no, attempt_records, previous_errors,
                   previous_diffs, proposal, success, baseline_ok, final_result, final_patch,
                   bundle, calls, options, replayed>>

attestVars == <<bundle_dir, environ, verdict, created>>

vars == <<patchVars, sessVars, attestVars>>

----------------------------------------------------------------------------
(* Sequences helpers *)

Last(s) == s[Len(s)]

Front(s) == SubSeq(s, 1, Len(s) - 1)

Max(a, b) == IF a >= b THEN a ELSE b

Min(a, b) == IF a <= b THEN a ELSE b

StartsWith(s, pre) == Len(s) >= Len(pre) /\ SubSeq(s, 1, Len(pre)) = pre

----------------------------------------------------------------------------
(* Paths *)

DevNull == <<"/", "dev", "/", "null">>

\* str.replace("\\", "/")
ReplaceBackslash(p) == [n \in 1..Len(p) |-> IF p[n] = "\\" THEN "/" ELSE p[n]]

\* str.lstrip("/")
RECURSIVE LStripSlash(_)
LStripSlash(p) == IF p # <<>> /\ p[1] = "/" THEN LStripSlash(Tail(p)) ELSE p

\* fnmatch.fnmatch(name, pattern) for patterns made of names, "/" and "*"
RECURSIVE FnMatchFrom(_, _, _, _)
FnMatchFrom(name, n, pat, j) ==
    IF j > Len(pat) THEN n > Len(name)
    ELSE IF pat[j] = "*"
         THEN FnMatchFrom(name, n, pat, j + 1)
              \/ (n <= Len(name) /\ FnMatchFrom(name, n + 1, pat, j))
         ELSE n <= Len(name) /\ pat[j] = name[n] /\ FnMatchFrom(name, n + 1, pat, j + 1)

FnMatch(name, pat) == FnMatchFrom(name, 1, pat, 1)

\* patch._is_path_allowed
_is_path_allowed(rel_path, pol) ==
    LET rel == LStripSlash(ReplaceBackslash(rel_path))
        allowed == \E n \in 1..Len(pol.write_allowlist) : FnMatch(rel, pol.write_allowlist[n])
        denied == \E n \in 1..Len(pol.deny_write) : FnMatch(rel, pol.deny_write[n])
    IN allowed /\ ~denied

\* patch._strip_prefix (str.strip() has nothing to remove: tokens hold no blanks)
_strip_prefix(p) ==
    IF StartsWith(p, <<"a", "/">>) \/ StartsWith(p, <<"b", "/">>)
    THEN SubSeq(p, 3, Len(p)) ELSE p

----------------------------------------------------------------------------
(* The file system.  A location is a sequence of directory and file names  *)
(* from the file-system root; fs maps the locations of the regular files   *)
(* to their content [lines, nl]: the lines of str.splitlines() and whether *)
(* the text ends in a newline.                                             *)

Ln(i, s) == [i |-> i, s |-> s]

EmptyLine == Ln(0, "")

File(lines) == [lines |-> lines, nl |-> TRUE]

IsPrefix(d, loc) == Len(d) <= Len(loc) /\ SubSeq(loc, 1, Len(d)) = d

Under(root, loc) == Len(root) < Len(loc) /\ IsPrefix(root, loc)

FilesUnder(f, root) == {loc \in DOMAIN f : Under(root, loc)}

RelOf(root, loc) == SubSeq(loc, Len(root) + 1, Len(loc))

\* the workspace root, and the sandbox root tmp_parent / "workspace"
WorkspaceRoot == <<"ws">>

TmpParent == <<"tmp">>

SandboxRoot == <<"tmp", "workspace">>

\* the names between the separators of a path string
RECURSIVE Components(_)
Components(p) ==
    IF p = <<>> THEN <<>>
    ELSE IF p[1] = "/" THEN Components(Tail(p))
    ELSE <<p[1]>> \o Components(Tail(p))

\* what the operating system makes of "." and ".." in a location
RECURSIVE LexNorm(_, _)
LexNorm(comps, acc) ==
    IF comps = <<>> THEN acc
    ELSE IF comps[1] = "." THEN LexNorm(Tail(comps), acc)
    ELSE IF comps[1] = ".."
         THEN LexNorm(Tail(comps), IF acc = <<>> THEN acc ELSE Front(acc))
    ELSE LexNorm(Tail(comps), Append(acc, comps[1]))

\* pathlib: root / rel_path; an absolute rel_path replaces root
JoinPath(root, rel_path) ==
    IF rel_path # <<>> /\ rel_path[1] = "/"
    THEN LexNorm(Components(rel_path), <<>>)
    ELSE LexNorm(root \o Components(rel_path), <<>>)

DirExists(f, d) ==
    d \in {<<>>, WorkspaceRoot, TmpParent, SandboxRoot} \/ \E loc \in DOMAIN f : Under(d, loc)

\* Path.exists(): every directory the path walks through (before a "..") exists
PathExists(f, root, rel_path) ==
    LET raw == IF rel_path # <<>> /\ rel_path[1] = "/"
               THEN Components(rel_path) ELSE root \o Components(rel_path)
    IN /\ JoinPath(root, rel_path) \in DOMAIN f
       /\ \A n \in 1..Len(raw) :
            raw[n] = ".." => DirExists(f, LexNorm(SubSeq(raw, 1, n - 1), <<>>))

\* Path.is_dir(): some file lies below the location
IsDirectory(f, loc) ==
    \E l \in DOMAIN f : Len(l) > Len(loc) /\ SubSeq(l, 1, Len(loc)) = loc

FsWrite(f, loc, content) == [l \in DOMAIN f \cup {loc} |-> IF l = loc THEN content ELSE f[l]]

FsRemove(f, loc) == [l \in DOMAIN f \ {loc} |-> f[l]]

----------------------------------------------------------------------------
(* Diff text.  One record per line; k is the prefix the line starts with:  *)
(*   "git"  diff --git <p> <q>        "old"  --- <p>       "new"  +++ <p>  *)
(*   "hdr"  @@ -h[1],h[2] +h[3],h[4] @@, p one "," per count printed       *)
(*   "ctx"  a space, "add" a plus, "del" a minus, each followed by t       *)
(*   "nonl" \ No newline at end of file                                    *)
(*   "raw"  any other line, whose whole text is t                          *)

DLine(k, p, q, h, t) == [k |-> k, p |-> p, q |-> q, h |-> h, t |-> t]

GitLine(p, q) == DLine("git", p, q, <<0, 0, 0, 0>>, EmptyLine)

OldLine(p) == DLine("old", p, <<>>, <<0, 0, 0, 0>>, Ln(0, "--"))

NewLine(p) == DLine("new", p, <<>>, <<0, 0, 0, 0>>, Ln(0, "++"))

\* a hunk header as difflib prints it: a count of 1 is left out
HdrLine(os, oc, ns, nc) ==
    DLine("hdr", (IF oc # 1 THEN <<",">> ELSE <<>>) \o (IF nc # 1 THEN <<",">> ELSE <<>>), <<>>,
          <<os, oc, ns, nc>>, EmptyLine)

\* a hunk header with both counts printed
HdrFull(os, oc, ns, nc) == DLine("hdr", <<",", ",">>, <<>>, <<os, oc, ns, nc>>, EmptyLine)

CtxLine(t) == DLine("ctx", <<>>, <<>>, <<0, 0, 0, 0>>, t)

AddLine(t) == DLine("add", <<>>, <<>>, <<0, 0, 0, 0>>, t)

DelLine(t) == DLine("del", <<>>, <<>>, <<0, 0, 0, 0>>, t)

RawLine(t) == DLine("raw", <<>>, <<>>, <<0, 0, 0, 0>>, t)

\* the hunk line a text line becomes (parse_unified_diff, the inner loop):
\* a line without marker gets a context marker, "+++ x" inside a hunk is an addition
HunkLineOf(l) ==
    IF l.k = "add" \/ l.k = "new" THEN [m |-> "add", t |-> l.t]
    ELSE IF l.k = "del" THEN [m |-> "del", t |-> l.t]
    ELSE [m |-> "ctx", t |-> l.t]

\* the inner loop of parse_unified_diff: <<hunk lines, index of the line that ends the hunk>>
RECURSIVE ParseHunkLines(_, _, _)
ParseHunkLines(lines, idx, acc) ==
    IF idx > Len(lines) \/ lines[idx].k \in {"hdr", "old", "git"} THEN <<acc, idx>>
    ELSE IF lines[idx].k = "nonl" THEN ParseHunkLines(lines, idx + 1, acc)
    ELSE ParseHunkLines(lines, idx + 1, Append(acc, HunkLineOf(lines[idx])))

\* the outer loop of parse_unified_diff
RECURSIVE ParseFrom(_, _, _)
ParseFrom(lines, idx, files) ==
    IF idx > Len(lines)
    THEN IF files = <<>>
         THEN [ok |-> FALSE, files |-> <<>>, err |-> "Patch did not contain any files"]
         ELSE [ok |-> TRUE, files |-> files, err |-> ""]
    ELSE LET line == lines[idx] IN
         IF line.k = "git" THEN ParseFrom(lines, idx + 1, files)
         ELSE IF line.k = "old"
         THEN IF idx + 1 > Len(lines) \/ lines[idx + 1].k # "new"
              THEN [ok |-> FALSE, files |-> <<>>, err |-> "Malformed patch: expected +++ line"]
              ELSE ParseFrom(lines, idx + 2,
                       Append(files, [old_path |-> line.p, new_path |-> lines[idx + 1].p,
                                      hunks |-> <<>>]))
         ELSE IF line.k = "hdr"
         THEN IF files = <<>>
              THEN [ok |-> FALSE, files |-> <<>>, err |-> "Malformed patch: hunk without file header"]
              ELSE LET got == ParseHunkLines(lines, idx + 1, <<>>)
                       hunk == [old_start |-> line.h[1], old_count |-> line.h[2],
                                new_start |-> line.h[3], new_count |-> line.h[4],
                                lines |-> got[1]]
                       cur == Last(files)
                   IN ParseFrom(lines, got[2],
                          Append(Front(files), [cur EXCEPT !.hunks = Append(@, hunk)]))
         ELSE ParseFrom(lines, idx + 1, files)

parse_unified_diff(diff_text) == ParseFrom(diff_text, 1, <<>>)

\* FilePatch.rel_path
rel_path(fp) ==
    LET candidate == IF fp.new_path # DevNull THEN fp.new_path ELSE fp.old_path
    IN IF StartsWith(candidate, <<"a", "/">>) \/ StartsWith(candidate, <<"b", "/">>)
       THEN SubSeq(candidate, 3, Len(candidate)) ELSE candidate

AppendNew(paths, rel) ==
    IF rel # <<>> /\ rel # DevNull /\ ~(\E n \in 1..Len(paths) : paths[n] = rel)
    THEN Append(paths, rel) ELSE paths

\* patch._extract_changed_paths; pending is <<>> for None, <<old path>> otherwise
RECURSIVE ExtractFrom(_, _, _, _)
ExtractFrom(lines, idx, paths, pending) ==
    IF idx > Len(lines) THEN paths
    ELSE LET line == lines[idx] IN
         IF line.k = "git"
         THEN ExtractFrom(lines, idx + 1,
                  AppendNew(paths, _strip_prefix(IF line.q # DevNull THEN line.q ELSE line.p)),
                  pending)
         ELSE IF line.k = "old" THEN ExtractFrom(lines, idx + 1, paths, <<line.p>>)
         ELSE IF line.k = "new" /\ pending # <<>>
         THEN ExtractFrom(lines, idx + 1,
                  AppendNew(paths, _strip_prefix(IF line.p # DevNull THEN line.p ELSE pending[1])),
                  <<>>)
         ELSE ExtractFrom(lines, idx + 1, paths, pending)

_extract_changed_paths(diff_text) == ExtractFrom(diff_text, 1, <<>>, <<>>)

\* patch.patch_line_change_counts: additions + deletions
LineEdits(diff_text) == Cardinality({n \in 1..Len(diff_text) : diff_text[n].k \in {"add", "del"}})

\* len(diff_text.encode("utf-8")): one byte per token and per newline
RECURSIVE PatchBytes(_)
PatchBytes(diff_text) ==
    IF diff_text = <<>> THEN 0
    ELSE LET l == diff_text[1]
             own == IF l.k \in {"old", "new"} THEN 4 + Len(l.p)
                    ELSE IF l.k = "git" THEN 12 + Len(l.p) + Len(l.q)
                    ELSE IF l.k = "hdr" THEN 11 + 2 * Len(l.p)
                    ELSE IF l.k = "raw" THEN l.t.i + 1
                    ELSE l.t.i + 2
         IN own + 1 + PatchBytes(Tail(diff_text))

HasBinaryMarker(diff_text) == \E n \in 1..Len(diff_text) : diff_text[n].t.s = "GIT binary patch"

\* patch._validate_patch_constraints: the error, or "" and the changed paths
_validate_patch_constraints(diff_text, pol) ==
    LET changed_paths == _extract_changed_paths(diff_text)
        fail(e) == [ok |-> FALSE, err |-> e, paths |-> <<>>]
    IN IF PatchBytes(diff_text) > pol.max_patch_bytes THEN fail("Patch size exceeds limit")
       ELSE IF HasBinaryMarker(diff_text) THEN fail("Binary patches are not supported")
       ELSE IF changed_paths = <<>> THEN fail("Patch did not contain any file targets")
       ELSE IF LineEdits(diff_text) = 0 THEN fail("Patch contains no line-level edits")
       ELSE IF Len(changed_paths) > pol.max_files_changed THEN fail("Patch changes too many files")
       ELSE IF \E n \in 1..Len(changed_paths) : ~_is_path_allowed(changed_paths[n], pol)
            THEN fail("Patch path is not allowed by policy")
       ELSE [ok |-> TRUE, err |-> "", paths |-> changed_paths]

----------------------------------------------------------------------------
(* apply_unified_diff *)

\* line_matches of apply_unified_diff: equal, or the payload lost one leading space
line_matches(actual, payload) ==
    actual = payload \/ (payload.i >= 1 /\ actual = [payload EXCEPT !.i = @ + 1])

\* the context and removal lines of a hunk, in order
Anchors(hunk) == SelectSeq(hunk.lines, LAMBDA hl : hl.m \in {"ctx", "del"})

\* can_apply_hunk_at; start_idx counts from 0 as in the code
can_apply_hunk_at(lines, hunk, start_idx) ==
    /\ start_idx >= 0
    /\ start_idx <= Len(lines)
    /\ \A n \in 1..Len(Anchors(hunk)) :
          /\ start_idx + n <= Len(lines)
          /\ line_matches(lines[start_idx + n], Anchors(hunk)[n].t)

Abs(x) == IF x < 0 THEN -x ELSE x

FirstCandidate(candidates, suggested) == CHOOSE c \in candidates : \A d \in candidates : c <= d

\* min(candidates, key = distance to suggested): the first of the closest
ClosestCandidate(candidates, suggested) ==
    CHOOSE c \in candidates :
        \A d \in candidates :
            Abs(c - suggested) < Abs(d - suggested)
            \/ (Abs(c - suggested) = Abs(d - suggested) /\ c <= d)

\* resolve_hunk_start; -1 stands for the ValueError "Context mismatch"
resolve_hunk_start(lines, hunk, suggested_idx) ==
    LET suggested == Max(0, Min(suggested_idx, Len(lines)))
        candidates == {idx \in 0..Len(lines) : can_apply_hunk_at(lines, hunk, idx)}
    IN IF Anchors(hunk) = <<>> THEN suggested
       ELSE IF can_apply_hunk_at(lines, hunk, suggested) THEN suggested
       ELSE IF candidates = {} THEN -1
       ELSE ClosestCandidate(candidates, suggested)

\* the replacement of one hunk applied at idx: context lines as the file has
\* them, additions as the hunk gives them
Replacement(lines, hunk, idx) ==
    LET hl == hunk.lines
        before(n) == Cardinality({j \in 1..(n - 1) : hl[j].m \in {"ctx", "del"}})
        kept == SelectSeq([n \in 1..Len(hl) |-> [m |-> hl[n].m, n |-> n]],
                          LAMBDA e : e.m # "del")
    IN [n \in 1..Len(kept) |->
           IF kept[n].m = "ctx" THEN lines[idx + before(kept[n].n) + 1]
           ELSE hl[kept[n].n].t]

\* the result of the hunks after one applied at idx: spans gets the region
\* lines[idx:idx + len(replacement)] this hunk wrote
Spanned(rest, idx, length) ==
    [rest EXCEPT !.spans = <<[start |-> idx, end |-> idx + length]>> \o @]

\* the hunk loop of apply_unified_diff: the new lines, or ok = FALSE
RECURSIVE ApplyHunks(_, _, _, _)
ApplyHunks(lines, hunks, n, offset) ==
    IF n > Len(hunks) THEN [ok |-> TRUE, lines |-> lines, spans |-> <<>>]
    ELSE LET hunk == hunks[n]
             idx0 == hunk.old_start - 1 + offset
             idx1 == IF hunk.old_count = 0 THEN Max(0, idx0 + 1) ELSE idx0
             idx == resolve_hunk_start(lines, hunk, idx1)
             consumed == Len(Anchors(hunk))
             replacement == Replacement(lines, hunk, idx)
         IN IF idx < 0 THEN [ok |-> FALSE, lines |-> lines, spans |-> <<>>]
            ELSE Spanned(ApplyHunks(SubSeq(lines, 1, idx) \o replacement
                                        \o SubSeq(lines, idx + consumed + 1, Len(lines)),
                                    hunks, n + 1, offset + Len(replacement) - consumed),
                         idx, Len(replacement))

\* the text apply_unified_diff writes: "\n".join(lines), a newline when the
\* file had one, and one more for a created file
FinalText(lines, had_trailing_newline, old_is_dev_null) ==
    IF lines = <<>> THEN [lines |-> <<>>, nl |-> FALSE]
    ELSE IF had_trailing_newline /\ old_is_dev_null
         THEN [lines |-> Append(lines, EmptyLine), nl |-> TRUE]
    ELSE IF had_trailing_newline \/ old_is_dev_null THEN [lines |-> lines, nl |-> TRUE]
    ELSE IF Last(lines) = EmptyLine
         THEN [lines |-> Front(lines), nl |-> Len(lines) > 1]
    ELSE [lines |-> lines, nl |-> FALSE]

\* one iteration of the file loop of apply_unified_diff on file system f:
\* the file system after it and the error raised ("" for none)
ApplyFilePatch(f, root, file_patch, pol) ==
    LET rel == _strip_prefix(rel_path(file_patch))
        loc == JoinPath(root, rel)
        old_is_dev_null == file_patch.old_path = DevNull
        new_is_dev_null == file_patch.new_path = DevNull
        exists == PathExists(f, root, rel)
        had_trailing_newline == IF old_is_dev_null THEN TRUE ELSE f[loc].nl
        original_lines == IF old_is_dev_null THEN <<>> ELSE f[loc].lines
        res == ApplyHunks(original_lines, file_patch.hunks, 1, 0)
    IN IF rel_path(file_patch) = DevNull THEN [fs |-> f, err |-> "Unsupported patch target path"]
       ELSE IF ~_is_path_allowed(rel, pol)
            THEN [fs |-> f, err |-> "Patch path is not allowed by policy"]
       ELSE IF IsDirectory(f, loc) THEN [fs |-> f, err |-> "Is a directory"]
       ELSE IF ~old_is_dev_null /\ ~exists THEN [fs |-> f, err |-> "Target file does not exist"]
       ELSE IF ~res.ok THEN [fs |-> f, err |-> "Context mismatch applying patch"]
       ELSE IF new_is_dev_null
            THEN [fs |-> IF exists THEN FsRemove(f, loc) ELSE f, err |-> ""]
       ELSE [fs |-> FsWrite(f, loc, FinalText(res.lines, had_trailing_newline, old_is_dev_null)),
             err |-> ""]

\* the file loop of apply_unified_diff: each file is written before the next is looked at
RECURSIVE ApplyFiles(_, _, _, _, _)
ApplyFiles(f, root, files, n, pol) ==
    IF n > Len(files) THEN [fs |-> f, err |-> ""]
    ELSE LET one == ApplyFilePatch(f, root, files[n], pol)
         IN IF one.err # "" THEN one ELSE ApplyFiles(one.fs, root, files, n + 1, pol)

\* patch.apply_unified_diff: [fs after the call, err ("" when it returns)]
apply_unified_diff(diff_text, f, root, pol) ==
    LET parsed == parse_unified_diff(diff_text)
    IN IF ~parsed.ok THEN [fs |-> f, err |-> parsed.err]
       ELSE IF Len(parsed.files) > pol.max_files_changed
            THEN [fs |-> f, err |-> "Patch changes too many files"]
       ELSE IF PatchBytes(diff_text) > pol.max_patch_bytes
            THEN [fs |-> f, err |-> "Patch size exceeds limit"]
       ELSE ApplyFiles(f, root, parsed.files, 1, pol)

----------------------------------------------------------------------------
(* apply_patch_with_fallback *)

\* patch._can_use_git_apply: the sandbox root is inside a git work tree.  A
\* worktree sandbox is one; a copy under the temporary directory is not
\* (the copy leaves .git out).
_can_use_git_apply(sb) == sb.workspace_backend = "git_worktree"

\* git apply -p1: the path of a ---/+++ line without its first directory
RECURSIVE GitTarget(_)
GitTarget(p) ==
    IF p = <<>> THEN <<>>
    ELSE IF p[1] = "/" THEN LStripSlash(p)
    ELSE GitTarget(Tail(p))

\* git apply takes a path that is /dev/null, or that is relative, free of
\* "." and ".." and names, below its first directory, a file of the work tree
GitPathOk(p) ==
    \/ p = DevNull
    \/ /\ p # <<>>
       /\ p[1] # "/"
       /\ GitTarget(p) # <<>>
       /\ \A n \in 1..Len(p) : p[n] \notin {"..", ".", "\\"}

GitRel(fp) == IF fp.new_path # DevNull THEN GitTarget(fp.new_path) ELSE GitTarget(fp.old_path)

\* git apply (an external program) can succeed only when every file's paths
\* are taken, both name the same file, and the hunks fit it there; it
\* changes nothing when it fails
GitCanApply(diff_text, f, root) ==
    LET parsed == parse_unified_diff(diff_text)
    IN /\ parsed.ok
       /\ \A n \in 1..Len(parsed.files) :
             LET fp == parsed.files[n] IN
             /\ fp.hunks # <<>>
             /\ GitPathOk(fp.old_path)
             /\ GitPathOk(fp.new_path)
             /\ ~(fp.old_path = DevNull /\ fp.new_path = DevNull)
             /\ fp.old_path # DevNull /\ fp.new_path # DevNull
                    => GitTarget(fp.old_path) = GitTarget(fp.new_path)
             /\ (fp.old_path = DevNull) = ~PathExists(f, root, GitRel(fp))
             /\ ~IsDirectory(f, JoinPath(root, GitRel(fp)))
             /\ \A m \in 1..(n - 1) : GitRel(parsed.files[m]) # GitRel(fp)
             /\ ApplyHunks(IF fp.old_path = DevNull THEN <<>>
                           ELSE f[JoinPath(root, GitRel(fp))].lines,
                           fp.hunks, 1, 0).ok

\* the work tree after a successful git apply: the hunks applied, every
\* written file ending in one newline
RECURSIVE GitEffect(_, _, _, _)
GitEffect(f, root, files, n) ==
    IF n > Len(files) THEN f
    ELSE LET fp == files[n]
             loc == JoinPath(root, GitRel(fp))
             orig == IF fp.old_path = DevNull THEN <<>> ELSE f[loc].lines
             res == ApplyHunks(orig, fp.hunks, 1, 0)
         IN IF fp.new_path = DevNull THEN GitEffect(FsRemove(f, loc), root, files, n + 1)
            ELSE GitEffect(FsWrite(f, loc, [lines |-> res.lines, nl |-> res.lines # <<>>]),
                           root, files, n + 1)

\* patch._git_apply: the outcomes the external program can have
GitOutcomes(diff_text, f, root) ==
    IF GitCanApply(diff_text, f, root) THEN {TRUE, FALSE} ELSE {FALSE}

\* patch.apply_patch_with_fallback, git_ok being the outcome of git apply
apply_patch_with_fallback(diff_text, f, root, pol, sb, git_ok) ==
    LET checked == _validate_patch_constraints(diff_text, pol)
        parser == apply_unified_diff(diff_text, f, root, pol)
    IN IF ~checked.ok THEN [fs |-> f, err |-> checked.err, paths |-> <<>>]
       ELSE IF _can_use_git_apply(sb) /\ git_ok
            THEN [fs |-> GitEffect(f, root, parse_unified_diff(diff_text).files, 1),
                  err |-> "", paths |-> checked.paths]
       ELSE [fs |-> parser.fs, err |-> parser.err,
             paths |-> IF parser.err = "" THEN checked.paths ELSE <<>>]

----------------------------------------------------------------------------
(* Inputs: policies, trees and the diffs a proposer may return *)

DefaultMaxAttempts == 3

DefaultMaxFilesChanged == 8

DefaultMaxPatchBytes == 200000

StarStar == <<"*", "*">>

SrcGlob == <<"src", "/", "*", "*">>

SecretsGlob == <<"secrets", "/", "*", "*">>

\* Policy() with the given path lists; the other fields as config.Policy defaults them
PolicyOf(allow, deny) ==
    [allowed_commands |-> <<>>, allowed_argv |-> <<>>,
     write_allowlist |-> allow, deny_write |-> deny,
     max_attempts |-> DefaultMaxAttempts,
     max_files_changed |-> DefaultMaxFilesChanged,
     max_patch_bytes |-> DefaultMaxPatchBytes,
     backend |-> "copy", minimize |-> TRUE,
     attestation |-> [enabled |-> FALSE, mode |-> "none"]]

PathPolicies ==
    { PolicyOf(<<StarStar>>, <<>>),
      PolicyOf(<<SrcGlob>>, <<SecretsGlob>>),
      PolicyOf(<<StarStar>>, <<SecretsGlob>>) }

SrcM == <<"src", "/", "m.py">>

SecK == <<"secrets", "/", "k.txt">>

LineA == Ln(0, "a")

LineB == Ln(0, "b")

LineC == Ln(0, "c")

LineS == Ln(0, "s")

LineT == Ln(0, "t")

OneHunk(oldp, newp, body) == <<OldLine(oldp), NewLine(newp), HdrLine(1, 1, 1, 1)>> \o body

\* src/m.py: a -> b
DiffFix == OneHunk(<<"a", "/">> \o SrcM, <<"b", "/">> \o SrcM, <<DelLine(LineA), AddLine(LineB)>>)

\* src/m.py: a line c after line a
DiffWrong == OneHunk(<<"a", "/">> \o SrcM, <<"b", "/">> \o SrcM, <<CtxLine(LineA), AddLine(LineC)>>)

\* src/m.py: removes a line the file does not have
DiffMismatch == OneHunk(<<"a", "/">> \o SrcM, <<"b", "/">> \o SrcM, <<DelLine(LineT), AddLine(LineB)>>)

\* secrets/k.txt: s -> t
DiffSecret == OneHunk(<<"a", "/">> \o SecK, <<"b", "/">> \o SecK, <<DelLine(LineS), AddLine(LineT)>>)

\* src/m.py, then secrets/k.txt
DiffTwoFiles == DiffFix \o DiffSecret

\* src/m.py, then secrets/k.txt under a doubled a/ b/ prefix
DiffDoublePrefix ==
    DiffFix \o OneHunk(<<"a", "/", "a", "/">> \o SecK, <<"b", "/", "b", "/">> \o SecK,
                       <<DelLine(LineS), AddLine(LineT)>>)

\* secrets/k.txt reached through src/..
DiffTraverse ==
    OneHunk(<<"a", "/", "src", "/", "..", "/">> \o SecK, <<"b", "/", "src", "/", "..", "/">> \o SecK,
            <<DelLine(LineS), AddLine(LineT)>>)

\* a new file next to the sandbox root: ../escape.txt
DiffDotDot ==
    <<OldLine(DevNull), NewLine(<<"b", "/", "..", "/", "escape.txt">>), HdrLine(0, 0, 1, 1),
      AddLine(LineT)>>

\* the workspace's own src/m.py by its absolute path
DiffAbsolute ==
    OneHunk(<<"/", "ws", "/">> \o SrcM, <<"/", "ws", "/">> \o SrcM, <<DelLine(LineA), AddLine(LineB)>>)

\* secrets/k.txt under directory prefixes other than a/ and b/
DiffOtherPrefix ==
    OneHunk(<<"x", "/">> \o SecK, <<"y", "/">> \o SecK, <<DelLine(LineS), AddLine(LineT)>>)

DiffEmpty == <<>>

\* one line of two spaces
DiffBlank == <<RawLine(Ln(2, ""))>>

Diffs ==
    { DiffFix, DiffWrong, DiffMismatch, DiffSecret, DiffTwoFiles, DiffDoublePrefix,
      DiffTraverse, DiffDotDot, DiffAbsolute, DiffEmpty, DiffBlank }

\* a tree with src/m.py and secrets/k.txt below root
TreeAt(root, first) ==
    [loc \in {root \o <<"src", "m.py">>, root \o <<"secrets", "k.txt">>} |->
        IF loc = root \o <<"src", "m.py">> THEN File(<<first>>) ELSE File(<<LineS>>)]

Merge(f, g) == [loc \in DOMAIN f \cup DOMAIN g |-> IF loc \in DOMAIN f THEN f[loc] ELSE g[loc]]

SandboxOf(workspace_backend) ==
    [root |-> SandboxRoot, backend |-> "native", workspace_backend |-> workspace_backend]

----------------------------------------------------------------------------
(* The diff engine on its own: a sandbox tree, a policy, and calls of      *)
(* apply_unified_diff and apply_patch_with_fallback with diffs of Diffs.   *)

MaxCalls == 2

PatchDiffs == Diffs \cup {DiffOtherPrefix}

NoOp == [fn |-> "none", diff |-> <<>>, pre |-> << >>, err |-> "", n |-> 0]

\* pp/attest.py at rest: no call made, no attestation created
NoVerdict == [fn |-> "none", raised |-> FALSE, ok |-> FALSE, content_valid |-> FALSE,
              signature_valid |-> FALSE]

NeverCreated == [has |-> FALSE, files |-> <<>>, key |-> "", mode |-> ""]

AttestIdle ==
    /\ bundle_dir = <<>>
    /\ environ = ""
    /\ verdict = NoVerdict
    /\ created = NeverCreated

\* run() and prove() as called without --keep-sandbox and --attest
NoOptions == [keep_sandbox |-> FALSE, attest |-> FALSE, mode |-> "none", entry |-> "run",
              listed |-> <<>>]

\* replay() not called
NotReplayed == [called |-> FALSE, raised |-> FALSE, success |-> FALSE, rows |-> <<>>,
                patch_text |-> <<>>]

\* the session controller at rest
SessionIdle ==
    /\ workspace = [is_repo |-> FALSE, head |-> {}]
    /\ targets = <<>>
    /\ pc = "idle"
    /\ attempt_no = 0
    /\ attempt_records = <<>>
    /\ previous_errors = <<>>
    /\ previous_diffs = {}
    /\ proposal = [has |-> FALSE, diff |-> <<>>]
    /\ success = FALSE
    /\ baseline_ok = FALSE
    /\ final_result = [cmd |-> "", exit_code |-> -1, stderr |-> <<>>, argv |-> <<>>]
    /\ final_patch = <<>>
    /\ bundle = <<>>
    /\ calls = [propose |-> 0, targets |-> 0]
    /\ options = NoOptions
    /\ replayed = NotReplayed

InitPatch ==
    /\ fs = Merge(TreeAt(SandboxRoot, LineA), TreeAt(WorkspaceRoot, LineA))
    /\ policy \in PathPolicies
    /\ sandbox \in {SandboxOf("copy"), SandboxOf("git_worktree")}
    /\ op = NoOp
    /\ SessionIdle
    /\ AttestIdle

CallApplyUnifiedDiff ==
    /\ UNCHANGED attestVars
    /\ op.n < MaxCalls
    /\ \E d \in PatchDiffs :
          LET r == apply_unified_diff(d, fs, sandbox.root, policy)
          IN /\ fs' = r.fs
             /\ op' = [fn |-> "apply_unified_diff", diff |-> d, pre |-> fs, err |-> r.err,
                       n |-> op.n + 1]
    /\ UNCHANGED <<policy, sandbox, sessVars>>

CallApplyPatchWithFallback ==
    /\ UNCHANGED attestVars
    /\ op.n < MaxCalls
    /\ \E d \in PatchDiffs :
          \E git_ok \in GitOutcomes(d, fs, sandbox.root) :
             LET r == apply_patch_with_fallback(d, fs, sandbox.root, policy, sandbox, git_ok)
             IN /\ fs' = r.fs
                /\ op' = [fn |-> "apply_patch_with_fallback", diff |-> d, pre |-> fs,
                          err |-> r.err, n |-> op.n + 1]
    /\ UNCHANGED <<policy, sandbox, sessVars>>

NextPatch == CallApplyUnifiedDiff \/ CallApplyPatchWithFallback

SpecPatch == InitPatch /\ [][NextPatch]_vars

----------------------------------------------------------------------------
(* Sandboxes and the directory diff *)

IgnoreNames == {".git", ".pp-artifacts", "__pycache__", ".pytest_cache"}

\* shutil.ignore_patterns(...) of _copy_sandbox: an entry of such a name is
\* left out at every depth
CopyIgnored(rel) == \E n \in 1..Len(rel) : rel[n] \in IgnoreNames

\* runner._copy_sandbox: the files of the copy below sandbox_root
_copy_sandbox(f, workspace_root, sandbox_root) ==
    LET kept == {loc \in FilesUnder(f, workspace_root) : ~CopyIgnored(RelOf(workspace_root, loc))}
    IN [loc \in {sandbox_root \o RelOf(workspace_root, l) : l \in kept} |->
           f[workspace_root \o RelOf(sandbox_root, loc)]]

GitPointer == File(<<Ln(0, "gitdir:")>>)

\* runner._git_worktree_sandbox: git worktree add --detach checks HEAD out
\* below sandbox_root and writes the file .git that points to the repository
_git_worktree_sandbox(f, ws, workspace_root, sandbox_root) ==
    [loc \in {sandbox_root \o rel : rel \in ws.head \cup {<<".git">>}} |->
        IF RelOf(sandbox_root, loc) = <<".git">> THEN GitPointer
        ELSE f[workspace_root \o RelOf(sandbox_root, loc)]]

\* runner.is_git_clean: git status --porcelain prints nothing; the files
\* below .git are not part of the work tree
is_git_clean(f, ws, workspace_root) ==
    {RelOf(workspace_root, loc) : loc \in FilesUnder(f, workspace_root)} \ ws.head
        \subseteq {rel \in {RelOf(workspace_root, loc) : loc \in FilesUnder(f, workspace_root)} :
                      rel[1] = ".git"}

\* runner.create_sandbox: the workspace backend chosen, "error" when it raises
create_sandbox(f, ws, pol, workspace_root) ==
    IF pol.backend = "copy" THEN "copy"
    ELSE IF pol.backend = "git_worktree"
         THEN IF ws.is_repo THEN "git_worktree" ELSE "error"
    ELSE IF ws.is_repo /\ is_git_clean(f, ws, workspace_root) THEN "git_worktree"
    ELSE "copy"

\* patch._iter_files: the files of a root a directory diff looks at
IterIgnored(rel) ==
    \/ Len(rel) > 1 /\ rel[1] \in {".git", ".pp-artifacts"}
    \/ \E n \in 1..Len(rel) : rel[n] = "__pycache__"

_iter_files(f, root) == {RelOf(root, loc) : loc \in {l \in FilesUnder(f, root) : ~IterIgnored(RelOf(root, l))}}

\* the chunks of diff_between_dirs: one per path whose lines differ; difflib
\* yields nothing for two equal line lists, a missing file counting as no lines
DirChunks(f, base_dir, new_dir) ==
    LET base_files == _iter_files(f, base_dir)
        new_files == _iter_files(f, new_dir)
        text(files, root, rel) == IF rel \in files THEN f[root \o rel].lines ELSE <<>>
    IN { [rel |-> rel,
          old |-> text(base_files, base_dir, rel), new |-> text(new_files, new_dir, rel),
          from_null |-> rel \notin base_files, to_null |-> rel \notin new_files] :
         rel \in {r \in base_files \cup new_files :
                     text(base_files, base_dir, r) # text(new_files, new_dir, r)} }

\* the path string of a location relative to a root: its names joined by "/"
RECURSIVE AsPosix(_)
AsPosix(names) ==
    IF Len(names) <= 1 THEN names
    ELSE <<names[1], "/">> \o AsPosix(Tail(names))

\* the length of the longest common prefix of two line lists
RECURSIVE CommonPrefix(_, _)
CommonPrefix(a, b) ==
    IF a = <<>> \/ b = <<>> \/ a[1] # b[1] THEN 0 ELSE 1 + CommonPrefix(Tail(a), Tail(b))

Reverse(s) == [n \in 1..Len(s) |-> s[Len(s) + 1 - n]]

\* difflib.unified_diff(old, new, fromfile, tofile, lineterm=""), for files
\* short enough that one hunk with three lines of context holds them: the
\* common lines at the start, the lines removed, the lines added, the
\* common lines at the end
unified_diff(old, new, fromfile, tofile) ==
    LET pre == CommonPrefix(old, new)
        suf == CommonPrefix(Reverse(SubSeq(old, pre + 1, Len(old))),
                            Reverse(SubSeq(new, pre + 1, Len(new))))
        ctx(lines) == [n \in 1..Len(lines) |-> CtxLine(lines[n])]
        del == SubSeq(old, pre + 1, Len(old) - suf)
        add == SubSeq(new, pre + 1, Len(new) - suf)
    IN IF old = new THEN <<>>
       ELSE <<OldLine(fromfile), NewLine(tofile),
              HdrLine(IF old = <<>> THEN 0 ELSE 1, Len(old), IF new = <<>> THEN 0 ELSE 1, Len(new))>>
            \o ctx(SubSeq(old, 1, pre))
            \o [n \in 1..Len(del) |-> DelLine(del[n])]
            \o [n \in 1..Len(add) |-> AddLine(add[n])]
            \o ctx(SubSeq(old, Len(old) - suf + 1, Len(old)))

\* sorted(set(base_files) | set(new_files)): the relative paths of the
\* model's trees in the order of their strings
SortedPaths ==
    << <<".git">>, <<".pytest_cache", "lastfailed">>, <<"escape.txt">>, <<"notes.txt">>,
       <<"secrets", "k.txt">>, <<"src", "m.py">> >>

RECURSIVE JoinChunks(_, _)
JoinChunks(chunks, n) ==
    IF n > Len(SortedPaths) THEN <<>>
    ELSE LET here == {c \in chunks : c.rel = SortedPaths[n]}
             c == CHOOSE x \in here : TRUE
         IN (IF here = {} THEN <<>>
             ELSE unified_diff(c.old, c.new,
                               IF c.from_null THEN DevNull ELSE <<"a", "/">> \o AsPosix(c.rel),
                               IF c.to_null THEN DevNull ELSE <<"b", "/">> \o AsPosix(c.rel)))
            \o JoinChunks(chunks, n + 1)

\* "\n".join(lines).strip(): the white space at the end of the text goes. A
\* last line of nothing but white space goes whole, and a last line that is
\* its marker and then white space keeps the marker only
RECURSIVE Strip(_)
Strip(text) ==
    IF text = <<>> \/ Last(text).k \notin {"ctx", "add", "del"} \/ Last(text).t.s # "" THEN text
    ELSE IF Last(text).k = "ctx" THEN Strip(Front(text))
    ELSE Append(Front(text), [Last(text) EXCEPT !.t = EmptyLine])

\* patch.diff_between_dirs: the chunks of the paths in sorted order, stripped
diff_between_dirs(f, base_dir, new_dir) ==
    Strip(JoinChunks(DirChunks(f, base_dir, new_dir), 1))

\* runner.cleanup_sandbox: the temporary parent directory is removed with all below it
cleanup_sandbox(f) == [loc \in {l \in DOMAIN f : ~Under(TmpParent, l)} |-> f[loc]]

----------------------------------------------------------------------------
(* Proof targets.  A proof target is an external command; its exit code is *)
(* a function of the tree it runs in.                                      *)

\* the proof targets that can take longer than per_command_timeout_sec
SlowTargets == {"t3"}

\* "t1" and "t3" exit 0 when src/m.py starts with line b, "t2" when it
\* holds no line c
ExitCode(target, f, root) ==
    LET loc == root \o <<"src", "m.py">>
        has == loc \in DOMAIN f
    IN IF target \in {"t1", "t3"}
       THEN IF has /\ f[loc].lines # <<>> /\ f[loc].lines[1] = LineB THEN 0 ELSE 1
       ELSE IF has /\ \A n \in 1..Len(f[loc].lines) : f[loc].lines[n] # LineC THEN 0 ELSE 1

\* no CommandResult
NoResult == [cmd |-> "", exit_code |-> -1, stderr |-> <<>>, argv |-> <<>>]

\* config.Policy.is_command_allowed
is_command_allowed(cmd, pol) ==
    \E n \in 1..Len(pol.allowed_commands) : pol.allowed_commands[n] = cmd

\* shlex.split on the command lines used here: quotes go, white space
\* separates the tokens
shlex_split(cmd) ==
    IF cmd = "'t2'" THEN <<"t2">>
    ELSE IF cmd = "t2 x" THEN <<"t2", "x">>
    ELSE IF cmd = "'t2' x" THEN <<"t2", "x">>
    ELSE <<cmd>>

\* Policy.command_execution: (allowed, argv).  The vector of allowed_argv
\* that the tokens of cmd equal is returned for argv-form execution; a
\* command that is only in the allowed set is allowed without a vector
\* (argv = <<>> stands for None)
command_execution(cmd, pol) ==
    IF \E n \in 1..Len(pol.allowed_argv) : pol.allowed_argv[n] = shlex_split(cmd)
    THEN [allowed |-> TRUE, argv |-> shlex_split(cmd)]
    ELSE [allowed |-> is_command_allowed(cmd, pol), argv |-> <<>>]

\* a file of the proof bundle: a = -1 for the bundle directory, 0 for
\* attempts/0_baseline, n for attempts/<n>; i the proof target of a result file
Art(a, name, i) == [a |-> a, f |-> name, i |-> i]

\* a file of the proof bundle whose content v the model keeps
ArtWith(a, name, i, v) == [a |-> a, f |-> name, i |-> i, v |-> v]

TimeoutDiagnostic == "[veripatch] Command timed out"

RunCommandTimeoutPasses(cmd, f, root, timed_out, argv) ==
    [cmd |-> cmd,
     exit_code |-> IF timed_out THEN 0
                   ELSE ExitCode(IF argv # <<>> THEN argv[1] ELSE cmd, f, root),
     stderr |-> IF timed_out THEN <<TimeoutDiagnostic>> ELSE <<>>,
     argv |-> argv]

\* runner.run_command: the CommandResult; argv is run without a shell when
\* given, cmd by the shell otherwise (the field argv keeps which).
\* subprocess.TimeoutExpired is caught, the result then has exit code 124
\* and the diagnostic at the end of stderr
run_command(cmd, f, root, timed_out, argv) ==
    [cmd |-> cmd,
     exit_code |-> IF timed_out THEN 124
                   ELSE ExitCode(IF argv # <<>> THEN argv[1] ELSE cmd, f, root),
     stderr |-> IF timed_out THEN <<TimeoutDiagnostic>> ELSE <<>>,
     argv |-> argv]

\* which targets of a round run into the timeout: only slow ones can
TimeoutChoices(tgts) ==
    {timed \in [1..Len(tgts) -> BOOLEAN] : \A n \in 1..Len(tgts) : timed[n] => tgts[n] \in SlowTargets}

LastPassed(rows) == rows[Len(rows)].exit_code = 0

\* first_failure is None
AllPassed(rows) == \A n \in 1..Len(rows) : rows[n].exit_code = 0

RepresentativeLast(results) == results[Len(results)]

\* representative = first_failure or last_result
Representative(results) ==
    IF \E n \in 1..Len(results) : results[n].exit_code # 0
    THEN results[CHOOSE n \in 1..Len(results) :
                     /\ results[n].exit_code # 0
                     /\ \A m \in 1..n - 1 : results[m].exit_code = 0]
    ELSE results[Len(results)]

\* the targets that are run: all of them, or those before the first one
\* that policy.command_execution does not allow
RunCount(tgts, pol) ==
    IF \A n \in 1..Len(tgts) : command_execution(tgts[n], pol).allowed THEN Len(tgts)
    ELSE (CHOOSE n \in 1..Len(tgts) :
              /\ ~command_execution(tgts[n], pol).allowed
              /\ \A m \in 1..n - 1 : command_execution(tgts[m], pol).allowed) - 1

TargetResultsByShell(tgts, count, f, root, timed, pol) ==
    [n \in 1..count |-> run_command(tgts[n], f, root, timed[n], <<>>)]

\* the loop of _run_targets over the first count targets: the results, the
\* rows and the result files
TargetResults(tgts, count, f, root, timed, pol) ==
    [n \in 1..count |-> run_command(tgts[n], f, root, timed[n],
                                    command_execution(tgts[n], pol).argv)]

TargetRows(results) ==
    [n \in 1..Len(results) |-> [cmd |-> results[n].cmd, exit_code |-> results[n].exit_code]]

TargetFiles(results, a, prefix) ==
    [n \in 1..Len(results) |-> ArtWith(a, prefix \o "target.json", n, results[n])]

\* after the loop: target_results.json, verify.json, and what is returned
TargetsDone(results, a, prefix) ==
    [raised |-> FALSE, ok |-> AllPassed(TargetRows(results)),
     representative |-> Representative(results),
     rows |-> TargetRows(results),
     written |-> TargetFiles(results, a, prefix)
                 \o <<ArtWith(a, prefix \o "target_results.json", 0, TargetRows(results))>>
                 \o (IF Len(results) = 1 THEN <<Art(a, prefix \o "verify.json", 0)>> ELSE <<>>)]

\* RuntimeError("Command is not allowed by policy") leaves the loop: the
\* result files of the targets before it are written
TargetsRaised(results, a, prefix) ==
    [raised |-> TRUE, ok |-> FALSE, representative |-> NoResult, rows |-> <<>>,
     written |-> TargetFiles(results, a, prefix)]

\* SessionController._run_targets: every target once, in order, each as
\* policy.command_execution allows it; the representative result is the
\* first failure or else the last result
_run_targets(tgts, f, root, a, prefix, timed, pol) ==
    IF RunCount(tgts, pol) = Len(tgts)
    THEN TargetsDone(TargetResults(tgts, Len(tgts), f, root, timed, pol), a, prefix)
    ELSE TargetsRaised(TargetResults(tgts, RunCount(tgts, pol), f, root, timed, pol), a, prefix)

----------------------------------------------------------------------------
(* Minimisation: pp/minimize.py *)

\* a hunk line as the text it was parsed from
TextOf(hl) == IF hl.m = "add" THEN AddLine(hl.t) ELSE IF hl.m = "del" THEN DelLine(hl.t)
              ELSE CtxLine(hl.t)

RECURSIVE RenderHunks(_, _)
RenderHunks(hunks, n) ==
    IF n > Len(hunks) THEN <<>>
    ELSE <<HdrFull(hunks[n].old_start, hunks[n].old_count, hunks[n].new_start, hunks[n].new_count)>>
         \o [k \in 1..Len(hunks[n].lines) |-> TextOf(hunks[n].lines[k])]
         \o RenderHunks(hunks, n + 1)

RECURSIVE RenderFiles(_, _)
RenderFiles(files, n) ==
    IF n > Len(files) THEN <<>>
    ELSE <<OldLine(files[n].old_path), NewLine(files[n].new_path)>>
         \o RenderHunks(files[n].hunks, 1) \o RenderFiles(files, n + 1)

\* patch.render_patch_from_filepatches
render_patch_from_filepatches(files) == Strip(RenderFiles(files, 1))

\* a sequence without its element at position n
Without(s, n) == SubSeq(s, 1, n - 1) \o SubSeq(s, n + 1, Len(s))

\* candidate_files: current_files without one hunk, and without the files
\* that have no hunk left
CandidateFiles(current_files, file_idx, hunk_idx) ==
    SelectSeq([current_files EXCEPT ![file_idx].hunks = Without(@, hunk_idx)],
              LAMBDA fp : fp.hunks # <<>>)

\* tempfile.mkdtemp(prefix="pp-minimize-") / "workspace"
MinimizeRoot == <<"pp-minimize", "workspace">>

\* the verify command of the minimiser is (t1) && (t2) && ...: it exits 0
\* when the candidate applied and every target exits 0
CandidatePasses(applied, tgts) ==
    /\ applied.err = ""
    /\ \A n \in 1..Len(tgts) : ExitCode(tgts[n], applied.fs, MinimizeRoot) = 0

\* the candidate applied to a copy of the baseline
CandidateApplied(candidate_patch, temp, pol) ==
    IF candidate_patch = <<>> THEN [fs |-> temp, err |-> ""]
    ELSE apply_unified_diff(candidate_patch, temp, MinimizeRoot, pol)

\* one candidate of minimize_patch_hunks: the baseline is copied, the
\* candidate applied to the copy, and the verify command exits 0
CandidateVerifies(candidate_files, f, baseline_root, tgts, pol) ==
    CandidatePasses(CandidateApplied(render_patch_from_filepatches(candidate_files),
                                     Merge(_copy_sandbox(f, baseline_root, MinimizeRoot), f),
                                     pol),
                    tgts)

\* the pairs whose hunk can go: the candidate without it verifies
Removable(current_files, f, baseline_root, tgts, pol) ==
    {pr \in UNION {{<<i, j>> : j \in 1..Len(current_files[i].hunks)} : i \in 1..Len(current_files)} :
        CandidateVerifies(CandidateFiles(current_files, pr[1], pr[2]), f, baseline_root, tgts, pol)}

\* one pass of the two for loops: the first hunk that can go is dropped,
\* or current_files stays when none can
DropFirst(current_files, removable) ==
    IF removable = {} THEN current_files
    ELSE LET first == CHOOSE pr \in removable :
                         \A o \in removable : pr[1] < o[1] \/ (pr[1] = o[1] /\ pr[2] <= o[2])
         IN CandidateFiles(current_files, first[1], first[2])

\* the while loop of minimize_patch_hunks: after a pass that dropped a
\* hunk (made_progress) the search starts again
RECURSIVE MinimizeFiles(_, _, _, _, _)
RECURSIVE MinimizeAgain(_, _, _, _, _, _)
MinimizeAgain(current_files, next_files, f, baseline_root, tgts, pol) ==
    IF next_files = current_files THEN current_files
    ELSE MinimizeFiles(next_files, f, baseline_root, tgts, pol)

MinimizeFiles(current_files, f, baseline_root, tgts, pol) ==
    MinimizeAgain(current_files,
                  DropFirst(current_files, Removable(current_files, f, baseline_root, tgts, pol)),
                  f, baseline_root, tgts, pol)

\* render_patch_from_filepatches(current_files) if current_files else ""
RenderOrBlank(current_files) ==
    IF current_files # <<>> THEN render_patch_from_filepatches(current_files) ELSE <<>>

\* minimize.minimize_patch_hunks
minimize_patch_hunks(patch_text, f, baseline_root, tgts, pol) ==
    IF patch_text = <<>> THEN patch_text
    ELSE RenderOrBlank(MinimizeFiles(parse_unified_diff(patch_text).files, f, baseline_root,
                                     tgts, pol))

\* lines 562-565: the minimised patch replaces the cumulative diff after a
\* success when the policy says so and the minimiser returns a patch that
\* is not blank
MinimizedOr(raw, minimized, ok, pol) ==
    IF ok /\ raw # <<>> /\ pol.minimize /\ minimized # <<>> THEN minimized ELSE raw

\* lines 555-567: the cumulative diff, minimised
FinalPatch(f, sb, ok, tgts, pol) ==
    MinimizedOr(diff_between_dirs(f, WorkspaceRoot, sb.root),
                minimize_patch_hunks(diff_between_dirs(f, WorkspaceRoot, sb.root), f,
                                     WorkspaceRoot, tgts, pol),
                ok, pol)

----------------------------------------------------------------------------
(* Attestation: pp/attest.py.  The bytes of a file are a sequence of       *)
(* tokens; the text of attestation.json is one token, the JSON document.   *)
(* SHA-256 and HMAC-SHA-256 are taken to be collision free: a digest is    *)
(* the tagged value it was computed from.                                  *)

_ATTESTATION_FILENAME == "attestation.json"

DefaultKeyEnv == "PP_ATTEST_HMAC_KEY"

_sha256_bytes(data) == <<"sha256", data>>

\* json.dumps(payload, sort_keys=True, separators=(",", ":")): one text per
\* value, whatever the order of the keys
_canonical_json_bytes(payload) == <<"json", payload>>

hmac_new(key, msg) == <<"hmac-sha256", key, msg>>

_iter_bundle_files_all(dir) == DOMAIN dir

\* every file of the directory but the top-level attestation.json
_iter_bundle_files(dir) == {rel \in DOMAIN dir : rel # _ATTESTATION_FILENAME}

FileEntrySizeOnly(raw) == [sha256 |-> <<>>, bytes |-> Len(raw)]

\* files[rel] = {"sha256": ..., "bytes": len(raw)}
FileEntry(raw) == [sha256 |-> _sha256_bytes(raw), bytes |-> Len(raw)]

_statement_for_bundle(dir) ==
    LET files == [rel \in _iter_bundle_files(dir) |-> FileEntry(dir[rel])]
    IN [version |-> "pp-attestation-statement/v1",
        bundle_manifest_sha256 |-> _sha256_bytes(_canonical_json_bytes([files |-> files])),
        files |-> files]

\* the text written to attestation.json, and what json.loads makes of it
JsonDumps(doc) == <<doc>>

JsonLoads(text) == text[1]

SupportedModes == {"none", "hmac-sha256"}

\* create_attestation: [raised, dir]
create_attestation(dir, mode, key) ==
    IF mode \notin SupportedModes THEN [raised |-> TRUE, dir |-> dir]
    ELSE IF mode = "hmac-sha256" /\ key = "" THEN [raised |-> TRUE, dir |-> dir]
    ELSE LET statement == _statement_for_bundle(dir)
             signing == IF mode = "hmac-sha256"
                        THEN [mode |-> mode, key_env |-> DefaultKeyEnv,
                              signature |-> hmac_new(key, _canonical_json_bytes(statement)),
                              key_id |-> _sha256_bytes(key)]
                        ELSE [mode |-> mode, key_env |-> DefaultKeyEnv,
                              signature |-> <<>>, key_id |-> <<>>]
             attestation == [version |-> "pp-attestation/v1", statement |-> statement,
                             signing |-> signing]
         IN [raised |-> FALSE,
             dir |-> [rel \in DOMAIN dir \cup {_ATTESTATION_FILENAME} |->
                         IF rel = _ATTESTATION_FILENAME THEN JsonDumps(attestation)
                         ELSE dir[rel]]]

\* verify_attestation: [ok, content_valid, signature_valid]
verify_attestation(dir, key) ==
    IF _ATTESTATION_FILENAME \notin DOMAIN dir
    THEN [ok |-> FALSE, content_valid |-> FALSE, signature_valid |-> FALSE]
    ELSE LET attestation == JsonLoads(dir[_ATTESTATION_FILENAME])
             statement_saved == attestation.statement
             statement_current == _statement_for_bundle(dir)
             content_valid == statement_saved = statement_current
             signing == attestation.signing
             signature_valid ==
                 IF signing.mode = "none" THEN TRUE
                 ELSE IF signing.mode = "hmac-sha256"
                 THEN /\ key # ""
                      /\ hmac_new(key, _canonical_json_bytes(statement_saved)) = signing.signature
                 ELSE FALSE
         IN [ok |-> content_valid /\ signature_valid, content_valid |-> content_valid,
             signature_valid |-> signature_valid]

----------------------------------------------------------------------------
(* The session controller: SessionController._execute_session *)

MaxAttemptsBound == 2

MaxAttemptsValues == -1..MaxAttemptsBound

NoProposal == [has |-> FALSE, diff |-> <<>>]

AttemptRecord(number, proposed, apply_ok, verify_result, error) ==
    [number |-> number, proposed |-> proposed, apply_ok |-> apply_ok,
     verify_result |-> verify_result, error |-> error]

\* the workspaces a session is started in: src/m.py with the given first
\* line and secrets/k.txt, plus what the variant adds
WorkspaceVariants == {"plain", "cache", "repo_clean", "repo_dirty"}

WorkspaceExtras(variant) ==
    IF variant = "cache" THEN {<<".pytest_cache", "lastfailed">>}
    ELSE IF variant = "repo_clean" THEN {<<".git", "HEAD">>}
    ELSE IF variant = "repo_dirty" THEN {<<".git", "HEAD">>, <<"notes.txt">>}
    ELSE {}

WorkspaceFs(variant, first) ==
    Merge(TreeAt(WorkspaceRoot, first),
          [loc \in {WorkspaceRoot \o rel : rel \in WorkspaceExtras(variant)} |-> File(<<LineT>>)])

WorkspaceGit(variant) ==
    [is_repo |-> variant \in {"repo_clean", "repo_dirty"},
     head |-> IF variant \in {"repo_clean", "repo_dirty"}
              THEN {<<"src", "m.py">>, <<"secrets", "k.txt">>} ELSE {}]

\* how run() and prove() are called: keep_sandbox, attest, attestation_mode
\* ("" for None), and the value of the key variable in the environment
SessionOptions ==
    { o \in [keep_sandbox : BOOLEAN, attest : BOOLEAN, mode : {"", "none", "hmac-sha256", "x509"},
             key : {"", "k1"}] :
        ~o.attest => o.mode = "" /\ o.key = "" }

DefaultOptions == [keep_sandbox |-> FALSE, attest |-> FALSE, mode |-> "", key |-> ""]

\* policy.limits as the policy file sets them: the defaults, or a patch
\* size limit that the diff DiffFix just meets, or one file per patch
LimitsOf(limits) ==
    [max_patch_bytes |-> IF limits = "bytes" THEN PatchBytes(DiffFix) ELSE DefaultMaxPatchBytes,
     max_files_changed |-> IF limits = "files" THEN 1 ELSE DefaultMaxFilesChanged]

\* config.config_to_dict: the mapping written to policy.json
config_to_dict(tgts, pol) ==
    [proof_targets |-> tgts,
     policy |-> [allowed_commands |-> pol.allowed_commands,
                 write_allowlist |-> pol.write_allowlist, deny_write |-> pol.deny_write,
                 limits |-> [max_attempts |-> pol.max_attempts,
                             max_files_changed |-> pol.max_files_changed,
                             max_patch_bytes |-> pol.max_patch_bytes],
                 minimize |-> pol.minimize,
                 sandbox |-> [backend |-> pol.backend],
                 attestation |-> pol.attestation]]

\* config._build_config on a mapping that has every key
_build_config(mapping, fallback_cmd) ==
    LET raw == mapping.policy
        tgts == IF mapping.proof_targets = <<>> THEN <<fallback_cmd>> ELSE mapping.proof_targets
        listed == IF raw.allowed_commands = <<>> THEN tgts ELSE raw.allowed_commands
    IN [proof_targets |-> tgts,
        policy |-> [allowed_commands |->
                        IF \E n \in 1..Len(listed) : listed[n] = fallback_cmd THEN listed
                        ELSE Append(listed, fallback_cmd),
                    allowed_argv |-> <<>>,
                    write_allowlist |-> IF raw.write_allowlist = <<>> THEN <<StarStar>>
                                        ELSE raw.write_allowlist,
                    deny_write |-> raw.deny_write,
                    max_attempts |-> raw.limits.max_attempts,
                    max_files_changed |-> raw.limits.max_files_changed,
                    max_patch_bytes |-> raw.limits.max_patch_bytes,
                    backend |-> raw.sandbox.backend,
                    minimize |-> raw.minimize,
                    attestation |-> raw.attestation]]

\* config.load_config_from_mapping: the Config of a mapping already read
load_config_from_mapping(mapping, fallback_cmd) == _build_config(mapping, fallback_cmd)

\* config.load_config on a policy file that was found and read
load_config(mapping, fallback_cmd) == _build_config(mapping, fallback_cmd)

\* SessionController.run: the command is the one proof target, under the
\* policy load_config returns with the command as fallback
Run(command, mapping) ==
    [proof_targets |-> <<command>>, policy |-> load_config(mapping, command).policy]

\* SessionController.prove: the Config of the policy file, "true" being
\* the fallback command
Prove(mapping) == load_config(mapping, "true")

\* the policy file of a session: the policy fields as given, the allowed
\* commands it lists, and the proof targets prove() reads from it
PolicyFile(c) ==
    config_to_dict(IF c.entry = "prove" THEN c.targets ELSE <<>>,
                   [c.paths EXCEPT !.allowed_commands = c.listed, !.backend = c.backend,
                                   !.max_attempts = c.max_attempts,
                                   !.minimize = c.minimize,
                                   !.max_patch_bytes = LimitsOf(c.limits).max_patch_bytes,
                                   !.max_files_changed = LimitsOf(c.limits).max_files_changed])

\* the Config _execute_session is called with
ConfigOf(c) == IF c.entry = "run" THEN Run(c.targets[1], PolicyFile(c)) ELSE Prove(PolicyFile(c))

\* the configurations sessions are started with
SessionConfigs ==
    { c \in [variant : WorkspaceVariants, first : {LineA, LineB},
             paths : PathPolicies, backend : {"auto", "copy", "git_worktree"},
             max_attempts : MaxAttemptsValues,
             targets : {<<"t1">>, <<"t1", "t2">>, <<"t3">>, <<"t3", "t2">>},
             opts : SessionOptions, minimize : BOOLEAN,
             limits : {"default", "bytes", "files"},
             entry : {"run", "prove"}, listed : {<<>>, <<"t2">>, <<"t2", "t1">>}] :
        /\ c.entry = "run" => Len(c.targets) = 1
        /\ (c.entry = "prove" /\ Len(c.targets) = 1) \/ c.listed # <<>>
              => /\ c.variant = "plain" /\ c.backend = "copy"
                 /\ c.paths = PolicyOf(<<StarStar>>, <<>>)
                 /\ c.targets \in {<<"t1">>, <<"t1", "t2">>}
                 /\ c.opts = DefaultOptions
                 /\ c.minimize /\ c.limits = "default"
                 /\ c.first = LineA
                 /\ c.max_attempts = Min(1, MaxAttemptsBound)
        /\ c.paths # PolicyOf(<<StarStar>>, <<>>) => c.variant = "plain" /\ c.backend = "copy"
        /\ c.targets # <<"t1">> => c.variant = "plain" /\ c.backend = "copy"
                                   /\ c.paths = PolicyOf(<<StarStar>>, <<>>)
        /\ c.opts # DefaultOptions => /\ c.variant = "plain" /\ c.backend = "copy"
                                      /\ c.paths = PolicyOf(<<StarStar>>, <<>>)
                                      /\ c.targets = <<"t1">>
                                      /\ c.max_attempts = Min(1, MaxAttemptsBound)
        /\ ~c.minimize \/ c.limits # "default"
              => /\ c.variant \in {"plain", "repo_clean"} /\ c.backend \in {"copy", "auto"}
                 /\ c.variant = "plain" <=> c.backend = "copy"
                 /\ c.limits # "default" => c.variant = "plain"
                 /\ c.paths = PolicyOf(<<StarStar>>, <<>>)
                 /\ c.targets = <<"t1">>
                 /\ c.opts = DefaultOptions
                 /\ c.first = LineA }

Init ==
    \E c \in SessionConfigs :
        /\ fs = WorkspaceFs(c.variant, c.first)
        /\ workspace = WorkspaceGit(c.variant)
        /\ policy = ConfigOf(c).policy
        /\ targets = ConfigOf(c).proof_targets
        /\ sandbox = [root |-> SandboxRoot, backend |-> "none", workspace_backend |-> "none"]
        /\ op = NoOp
        /\ pc = "start"
        /\ attempt_no = 0
        /\ attempt_records = <<>>
        /\ previous_errors = <<>>
        /\ previous_diffs = {}
        /\ proposal = NoProposal
        /\ success = FALSE
        /\ baseline_ok = FALSE
        /\ final_result = NoResult
        /\ final_patch = <<>>
        /\ bundle = <<>>
        /\ calls = [propose |-> 0, targets |-> 0]
        /\ options = [keep_sandbox |-> c.opts.keep_sandbox, attest |-> c.opts.attest,
                      mode |-> c.opts.mode, entry |-> c.entry, listed |-> c.listed]
        /\ replayed = NotReplayed
        /\ bundle_dir = <<>>
        /\ environ = c.opts.key
        /\ verdict = NoVerdict
        /\ created = NeverCreated

LoopHeadOffByOne(n, max_attempts) == IF n <= max_attempts + 1 THEN "propose" ELSE "finalize"

\* for attempt_no in range(1, max_attempts + 1): where control goes when
\* attempt number n is next
LoopHead(n, max_attempts) == IF n <= max_attempts THEN "propose" ELSE "finalize"

AfterBaselineAlwaysLoop(ok, max_attempts) == LoopHead(1, max_attempts)

\* if not success: the attempt loop is entered only after a failing baseline
AfterBaseline(ok, max_attempts) == IF ok THEN "finalize" ELSE LoopHead(1, max_attempts)

\* lines 321-358: the policy check of the proof targets, create_sandbox and
\* the first files of the bundle
StartSession ==
    /\ UNCHANGED <<attestVars, options, replayed>>
    /\ pc = "start"
    /\ LET backend == create_sandbox(fs, workspace, policy, WorkspaceRoot)
           refused == \E n \in 1..Len(targets) : ~is_command_allowed(targets[n], policy)
       IN IF targets = <<>> \/ refused \/ backend = "error"
          THEN /\ pc' = "raised"
               /\ UNCHANGED <<fs, sandbox, bundle>>
          ELSE /\ pc' = "baseline"
               /\ sandbox' = SandboxOf(backend)
               /\ fs' = Merge(fs, IF backend = "copy"
                                  THEN _copy_sandbox(fs, WorkspaceRoot, SandboxRoot)
                                  ELSE _git_worktree_sandbox(fs, workspace, WorkspaceRoot, SandboxRoot))
               /\ bundle' = <<Art(-1, "environment.json", 0), Art(-1, "policy.json", 0),
                              Art(-1, "workspace_manifest.json", 0)>>
    /\ UNCHANGED <<policy, op, workspace, targets, attempt_no, attempt_records, previous_errors,
                   previous_diffs, proposal, success, baseline_ok, final_result, final_patch,
                   calls>>

\* lines 398-411: the baseline run of the proof targets
Baseline ==
    /\ UNCHANGED <<attestVars, options, replayed>>
    /\ pc = "baseline"
    /\ \E timed \in TimeoutChoices(targets) :
       LET run == _run_targets(targets, fs, sandbox.root, 0, "", timed, policy)
       IN /\ bundle' = bundle \o run.written
          /\ IF run.raised
             THEN /\ pc' = "raised"
                  /\ UNCHANGED <<baseline_ok, success, final_result, calls, attempt_no>>
             ELSE /\ baseline_ok' = run.ok
                  /\ success' = run.ok
                  /\ final_result' = run.representative
                  /\ calls' = [calls EXCEPT !.targets = @ + Len(targets)]
                  /\ attempt_no' = IF run.ok THEN 0 ELSE 1
                  /\ pc' = AfterBaseline(run.ok, policy.max_attempts)
    /\ UNCHANGED <<patchVars, workspace, targets, attempt_records, previous_errors,
                   previous_diffs, proposal, final_patch>>

KeepFeedback(previous, err) == previous

\* previous_errors.append(err)
AppendFeedback(previous, err) == Append(previous, err)

\* the end of an iteration that did not succeed: one record, error.txt, continue
RejectAttempt(record, feedback, written) ==
    /\ attempt_records' = Append(attempt_records, record)
    /\ previous_errors' = AppendFeedback(previous_errors, feedback)
    /\ bundle' = bundle \o written \o <<Art(attempt_no, "error.txt", 0)>>
    /\ attempt_no' = attempt_no + 1
    /\ pc' = LoopHead(attempt_no + 1, policy.max_attempts)
    /\ proposal' = NoProposal

IsEmptyDiffNever(diff) == FALSE

\* if not proposal.diff.strip()
IsEmptyDiff(diff) == \A n \in 1..Len(diff) : diff[n].k = "raw" /\ diff[n].t.s = ""

IsDuplicateNever(diff, prev) == FALSE

\* if proposal.diff in previous_diffs
IsDuplicate(diff, prev) == diff \in prev

\* previous_diffs.add(proposal.diff)
AddDiff(prev, diff) == prev \cup {diff}

ProposalFilesPatchFirst(a) == <<Art(a, "applied.patch", 0), Art(a, "proposed.json", 0)>>

\* artifacts.write_proposal(attempt_no, proposal), then attempts/<n>/applied.patch
ProposalFiles(a) == <<Art(a, "proposed.json", 0), Art(a, "applied.patch", 0)>>

\* lines 412-489: the proposer is called; a provider exception, an empty
\* diff and a repeated diff end the iteration
Propose ==
    /\ UNCHANGED <<attestVars, options, replayed>>
    /\ pc = "propose"
    /\ calls' = [calls EXCEPT !.propose = @ + 1]
    /\ \/ /\ RejectAttempt(AttemptRecord(attempt_no, NoProposal, FALSE, NoResult, "Provider error"),
                           "Provider error", <<>>)
          /\ UNCHANGED previous_diffs
       \/ \E d \in Diffs :
            LET out == [has |-> TRUE, diff |-> d]
                written == ProposalFiles(attempt_no)
            IN IF IsEmptyDiff(d)
               THEN /\ RejectAttempt(AttemptRecord(attempt_no, out, FALSE, NoResult,
                                                   "Provider returned empty diff"),
                                     "Provider returned empty diff", written)
                    /\ UNCHANGED previous_diffs
               ELSE IF IsDuplicate(d, previous_diffs)
               THEN /\ RejectAttempt(AttemptRecord(attempt_no, out, FALSE, NoResult,
                                                   "Patch apply rejected: repeated diff"),
                                     "Patch apply rejected: repeated diff", written)
                    /\ UNCHANGED previous_diffs
               ELSE /\ previous_diffs' = AddDiff(previous_diffs, d)
                    /\ proposal' = out
                    /\ bundle' = bundle \o written
                    /\ pc' = "apply"
                    /\ UNCHANGED <<attempt_records, previous_errors, attempt_no>>
    /\ UNCHANGED <<patchVars, workspace, targets, success, baseline_ok, final_result, final_patch>>

\* lines 491-524: patch_stats.json, then apply_patch_with_fallback in the sandbox
Apply ==
    /\ UNCHANGED <<attestVars, options, replayed>>
    /\ pc = "apply"
    /\ \E git_ok \in GitOutcomes(proposal.diff, fs, sandbox.root) :
          LET r == IF LineEdits(proposal.diff) = 0
                   THEN [fs |-> fs, err |-> "Patch contains no line-level edits", paths |-> <<>>]
                   ELSE apply_patch_with_fallback(proposal.diff, fs, sandbox.root, policy,
                                                  sandbox, git_ok)
          IN /\ fs' = r.fs
             /\ op' = [fn |-> "apply_patch_with_fallback", diff |-> proposal.diff, pre |-> fs,
                       err |-> r.err, n |-> attempt_no]
             /\ IF r.err # ""
                THEN RejectAttempt(AttemptRecord(attempt_no, proposal, FALSE, NoResult,
                                                 "Patch apply rejected: " \o r.err),
                                   "Patch apply rejected: " \o r.err,
                                   <<Art(attempt_no, "patch_stats.json", 0)>>)
                ELSE /\ bundle' = bundle \o <<Art(attempt_no, "patch_stats.json", 0),
                                              Art(attempt_no, "changed_paths.json", 0)>>
                     /\ pc' = "verify"
                     /\ UNCHANGED <<attempt_records, previous_errors, attempt_no, proposal>>
    /\ UNCHANGED <<policy, sandbox, workspace, targets, previous_diffs, success, baseline_ok,
                   final_result, final_patch, calls>>

AfterVerifyAlwaysLoop(ok, n, max_attempts) == LoopHead(n, max_attempts)

\* if verify_ok: success = True; break - else the next iteration
AfterVerify(ok, n, max_attempts) == IF ok THEN "finalize" ELSE LoopHead(n + 1, max_attempts)

\* lines 526-553: the proof targets are run on the patched sandbox
Verify ==
    /\ UNCHANGED <<attestVars, options, replayed>>
    /\ pc = "verify"
    /\ \E timed \in TimeoutChoices(targets) :
       LET run == _run_targets(targets, fs, sandbox.root, attempt_no, "verify/", timed, policy)
       IN /\ bundle' = bundle \o run.written
          /\ IF run.raised
             THEN /\ pc' = "raised"
                  /\ UNCHANGED <<calls, attempt_records, final_result, proposal, success,
                                 previous_errors, attempt_no>>
             ELSE /\ calls' = [calls EXCEPT !.targets = @ + Len(targets)]
                  /\ attempt_records' = Append(attempt_records,
                                               AttemptRecord(attempt_no, proposal, TRUE,
                                                             run.representative, ""))
                  /\ final_result' = run.representative
                  /\ proposal' = NoProposal
                  /\ pc' = AfterVerify(run.ok, attempt_no, policy.max_attempts)
                  /\ IF run.ok
                     THEN /\ success' = TRUE
                          /\ UNCHANGED <<previous_errors, attempt_no>>
                     ELSE /\ previous_errors' = AppendFeedback(previous_errors, "verify failed")
                          /\ attempt_no' = attempt_no + 1
                          /\ UNCHANGED success
    /\ UNCHANGED <<patchVars, workspace, targets, previous_diffs, baseline_ok, final_patch>>

ReproWithoutCount(s, records) == [success |-> s, attempts_used |-> 0]

\* repro.update({"success": success, "attempts_used": len(attempt_records), ...})
ReproUpdate(s, records) == [success |-> s, attempts_used |-> Len(records)]

\* lines 555-604: final.patch, final_summary.md and repro.json
Finalize ==
    /\ UNCHANGED <<attestVars, options, replayed>>
    /\ pc = "finalize"
    /\ final_patch' = FinalPatch(fs, sandbox, success, targets, policy)
    /\ bundle' = bundle \o <<Art(-1, "final.patch", 0), Art(-1, "final_summary.md", 0),
                             ArtWith(-1, "repro.json", 0, ReproUpdate(success, attempt_records))>>
    /\ pc' = "attest"
    /\ UNCHANGED <<patchVars, workspace, targets, attempt_no, attempt_records, previous_errors,
                   previous_diffs, proposal, success, baseline_ok, final_result, calls>>

\* should_attest = attest or policy.attestation.enabled
should_attest(opts, pol) == opts.attest \/ pol.attestation.enabled

\* resolved_mode = (attestation_mode or policy.attestation.mode or "none")
resolved_mode(opts, pol) ==
    IF opts.mode # "" THEN opts.mode
    ELSE IF pol.attestation.mode # "" THEN pol.attestation.mode
    ELSE "none"

\* the path of a bundle file below the proof bundle directory
ArtPath(art) ==
    (IF art.a = -1 THEN ""
     ELSE IF art.a = 0 THEN "attempts/0_baseline/"
     ELSE "attempts/" \o ToString(art.a) \o "/")
    \o (IF art.i = 0 THEN "" ELSE ToString(art.i) \o "_") \o art.f

\* the proof bundle directory as pp/attest.py reads it: path -> bytes; the
\* bytes of a file are one token, what the session wrote to it
DirOf(written) == [rel \in {ArtPath(written[n]) : n \in 1..Len(written)} |->
                      <<written[CHOOSE n \in 1..Len(written) :
                                    /\ ArtPath(written[n]) = rel
                                    /\ \A m \in n + 1..Len(written) : ArtPath(written[m]) # rel]>>]

\* lines 605-611: create_attestation on the proof bundle directory; its
\* RuntimeError leaves _execute_session at once
Attest ==
    /\ pc = "attest"
    /\ IF should_attest(options, policy)
       THEN LET r == create_attestation(DirOf(bundle), resolved_mode(options, policy), environ)
            IN IF r.raised
               THEN /\ pc' = "raised"
                    /\ UNCHANGED <<bundle, bundle_dir>>
               ELSE /\ pc' = "cleanup"
                    /\ bundle' = Append(bundle, Art(-1, _ATTESTATION_FILENAME, 0))
                    /\ bundle_dir' = r.dir
       ELSE /\ pc' = "cleanup"
            /\ bundle_dir' = DirOf(bundle)
            /\ UNCHANGED bundle
    /\ UNCHANGED <<patchVars, workspace, targets, attempt_no, attempt_records, previous_errors,
                   previous_diffs, proposal, success, baseline_ok, final_result, final_patch,
                   calls, options, replayed, environ, verdict, created>>

\* if not keep_sandbox: whether the sandbox stays
KeepsSandbox(keep_sandbox) == keep_sandbox

\* lines 613-630: cleanup_sandbox or sandbox_path.txt, and the RunSummary
\* is returned
Cleanup ==
    /\ pc = "cleanup"
    /\ IF ~KeepsSandbox(options.keep_sandbox)
       THEN /\ fs' = cleanup_sandbox(fs)
            /\ UNCHANGED <<bundle, bundle_dir>>
       ELSE /\ bundle' = Append(bundle, Art(-1, "sandbox_path.txt", 0))
            /\ bundle_dir' = [rel \in DOMAIN bundle_dir \cup {"sandbox_path.txt"} |->
                                 IF rel = "sandbox_path.txt"
                                 THEN <<Art(-1, "sandbox_path.txt", 0)>>
                                 ELSE bundle_dir[rel]]
            /\ UNCHANGED fs
    /\ pc' = "done"
    /\ UNCHANGED <<policy, sandbox, op, workspace, targets, attempt_no, attempt_records,
                   previous_errors, previous_diffs, proposal, success, baseline_ok,
                   final_result, final_patch, calls, options, replayed, environ, verdict,
                   created>>

\* tempfile.mkdtemp(prefix="pp-replay-") and its workspace
ReplayParent == <<"pp-replay">>

ReplayRoot == <<"pp-replay", "workspace">>

\* shutil.rmtree(d, ignore_errors=True)
rmtree(f, d) == [loc \in {l \in DOMAIN f : ~Under(d, l)} |-> f[loc]]

\* shutil.ignore_patterns(".pp-artifacts", "__pycache__", ".pytest_cache")
ReplayIgnored(rel) == \E n \in 1..Len(rel) : rel[n] \in {".pp-artifacts", "__pycache__", ".pytest_cache"}

\* shutil.copytree(source_root, replay_root, ignore=...): the file system
\* with the copy in it
ReplayCopy(f, source_root) ==
    LET kept == {RelOf(source_root, loc) :
                    loc \in {l \in FilesUnder(f, source_root) : ~ReplayIgnored(RelOf(source_root, l))}}
    IN Merge([loc \in {ReplayRoot \o rel : rel \in kept} |->
                 f[source_root \o RelOf(ReplayRoot, loc)]], f)

\* what _can_use_git_apply sees of the copy: it is a git work tree when
\* the .git directory of the source was copied along
ReplaySandbox(f) ==
    [root |-> ReplayRoot, backend |-> "native",
     workspace_backend |-> IF IsDirectory(f, ReplayRoot \o <<".git">>) THEN "git_worktree"
                           ELSE "copy"]

\* the finally clause of replay
ReplayFinally(f, d) == rmtree(f, d)

\* lines 731-735: final.patch applied to the copy when it is not blank
ReplayApplied(patch_text, copied, pol, git_ok) ==
    IF patch_text = <<>> THEN [fs |-> copied, err |-> ""]
    ELSE apply_patch_with_fallback(patch_text, copied, ReplayRoot, pol, ReplaySandbox(copied),
                                   git_ok)

\* lines 764-778: the payload, and the copy removed by the finally clause;
\* the RuntimeError of _run_targets leaves replay through that clause too
ReplayReturn(f, run) ==
    [fs |-> ReplayFinally(f, ReplayParent), raised |-> run.raised, success |-> run.ok,
     rows |-> run.rows]

\* the exception of apply_patch_with_fallback leaves replay
ReplayRejected(f) ==
    [fs |-> ReplayFinally(f, ReplayParent), raised |-> TRUE, success |-> FALSE, rows |-> <<>>]

\* lines 737-762: the proof targets run in the copy, each as the policy
\* allows it
ReplayTargets(applied, pol, tgts, timed) ==
    IF applied.err # "" THEN ReplayRejected(applied.fs)
    ELSE ReplayReturn(applied.fs,
                      _run_targets(tgts, applied.fs, ReplayRoot, -1, "", timed, pol))

\* lines 720-762 under the policy of policy.json
ReplayUnder(copied, pol, tgts, patch_text, timed, git_ok) ==
    ReplayTargets(ReplayApplied(patch_text, copied, pol, git_ok), pol, tgts, timed)

\* SessionController.replay from the copy on (lines 712-779): the policy
\* of policy.json, final.patch applied when not blank, the proof targets,
\* and the copy removed; raised when an exception leaves replay
replay(f, source_root, mapping, tgts, patch_text, timed, git_ok) ==
    ReplayUnder(ReplayCopy(f, source_root), load_config_from_mapping(mapping, tgts[1]).policy,
                tgts, patch_text, timed, git_ok)

\* a final.patch as a bundle made elsewhere can hold it
ForeignPatches == {DiffAbsolute}

\* what replay leaves: the file system, and the payload or the exception
ReplayEnds(r, patch_text) ==
    /\ fs' = r.fs
    /\ replayed' = [called |-> TRUE, raised |-> r.raised, success |-> r.success,
                    rows |-> r.rows, patch_text |-> patch_text]

\* replay() on the bundle of the session, or on that bundle with another
\* final.patch in it; the source root is the workspace_root of repro.json
Replay ==
    /\ pc = "done"
    /\ \E patch_text \in {final_patch} \cup ForeignPatches :
       \E timed \in TimeoutChoices(targets) :
       \E git_ok \in GitOutcomes(patch_text, ReplayCopy(fs, WorkspaceRoot), ReplayRoot) :
          ReplayEnds(replay(fs, WorkspaceRoot, config_to_dict(targets, policy), targets,
                            patch_text, timed, git_ok),
                     patch_text)
    /\ pc' = "replayed"
    /\ UNCHANGED <<policy, sandbox, op, workspace, targets, attempt_no, attempt_records,
                   previous_errors, previous_diffs, proposal, success, baseline_ok,
                   final_result, final_patch, bundle, calls, options, attestVars>>

Next == StartSession \/ Baseline \/ Propose \/ Apply \/ Verify \/ Finalize \/ Attest \/ Cleanup
           \/ Replay

Spec == Init /\ [][Next]_vars

\* RunSummary.attempts_used
attempts_used == Len(attempt_records)

----------------------------------------------------------------------------
(* Properties of the attempt loop *)

SessionOver == pc \in {"done", "replayed"}

InLoop == pc \in {"propose", "apply", "verify"}

HasArt(a, name) == \E n \in 1..Len(bundle) : bundle[n].a = a /\ bundle[n].f = name

\* C1 as stated: attempts_used <= max_attempts at session end, and
\* attempts_used = max_attempts when a session with a failing baseline ends
\* with success = false
C1_AsStated ==
    SessionOver =>
        /\ attempts_used <= policy.max_attempts
        /\ (~baseline_ok /\ ~success => attempts_used = policy.max_attempts)

\* C1 amended: the loop runs at most max(0, max_attempts) iterations; every
\* iteration that has ended, however it ended, left exactly one attempt
\* record carrying its number; at session end attempts_used <= max(0,
\* max_attempts), with equality when a session with a failing baseline ends
\* with success = false
C1_AttemptsBounded ==
    /\ attempts_used <= Max(0, policy.max_attempts)
    /\ \A i \in 1..Len(attempt_records) : attempt_records[i].number = i
    /\ InLoop => attempt_no <= policy.max_attempts /\ attempts_used = attempt_no - 1
    /\ SessionOver /\ ~baseline_ok /\ ~success => attempts_used = Max(0, policy.max_attempts)

\* a failed session that used both of its two attempts, one of them lost to
\* a provider exception and one to a failed verification
C1_Witness ==
    /\ SessionOver /\ ~baseline_ok /\ ~success
    /\ policy.max_attempts = 2 /\ attempts_used = 2
    /\ \E i \in 1..2 : attempt_records[i].error = "Provider error"
    /\ \E i \in 1..2 : attempt_records[i].apply_ok /\ attempt_records[i].verify_result.exit_code # 0

\* attempt i returned a non-empty diff that an earlier attempt had returned
RepeatsIn(records, i) ==
    /\ records[i].proposed.has
    /\ ~IsEmptyDiff(records[i].proposed.diff)
    /\ \E j \in 1..(i - 1) : /\ records[j].proposed.has
                             /\ records[j].proposed.diff = records[i].proposed.diff

Repeats(i) == RepeatsIn(attempt_records, i)

\* no diff that an earlier attempt returned is on its way to apply or verify
C2_NoReapply ==
    pc \in {"apply", "verify"} =>
        \A j \in 1..Len(attempt_records) :
            ~(attempt_records[j].proposed.has /\ attempt_records[j].proposed.diff = proposal.diff)

\* a repeating attempt is recorded as rejected, with error.txt and without
\* any verify artifact, and it has consumed its attempt number
C2_Recorded ==
    \A i \in 1..Len(attempt_records) :
        Repeats(i) =>
            /\ attempt_records[i].number = i
            /\ ~attempt_records[i].apply_ok
            /\ attempt_records[i].verify_result = NoResult
            /\ attempt_records[i].error = "Patch apply rejected: repeated diff"
            /\ HasArt(i, "error.txt")
            /\ ~HasArt(i, "verify/target_results.json")
            /\ ~HasArt(i, "changed_paths.json")

\* the step that ends a repeating attempt changes no file and runs no target
C2_Step ==
    (/\ Len(attempt_records') = Len(attempt_records) + 1
     /\ RepeatsIn(attempt_records', Len(attempt_records')))
        => /\ fs' = fs
           /\ calls'.targets = calls.targets
           /\ attempt_no' = attempt_no + 1

\* C2: a non-empty diff identical to one returned in an earlier attempt of
\* the session is rejected before any apply: the sandbox is not modified, no
\* proof target is run for the attempt, the rejection is recorded in
\* attempts/<n>/error.txt, and the attempt counts against max_attempts
C2_DuplicateRejected == [](C2_NoReapply /\ C2_Recorded) /\ [][C2_Step]_vars

\* a second attempt that repeated the diff of the first, whose verification
\* had failed
C2_Witness ==
    /\ Len(attempt_records) = 2
    /\ Repeats(2)
    /\ attempt_records[1].apply_ok /\ attempt_records[1].verify_result.exit_code # 0
    /\ HasArt(2, "error.txt")

\* C3: if every proof target exits 0 on the baseline run, the proposer is
\* never invoked, no attempt record is created and the session ends with
\* success = true
C3_BaselinePass ==
    baseline_ok =>
        /\ calls.propose = 0
        /\ attempt_records = <<>>
        /\ ~InLoop
        /\ SessionOver => success /\ attempts_used = 0

\* a finished session whose two proof targets both passed on the baseline
C3_Witness ==
    /\ SessionOver /\ baseline_ok /\ success
    /\ Len(targets) = 2
    /\ policy.max_attempts > 0

\* C4: if the baseline run passes, the final.patch of the bundle (the diff
\* from the workspace root to the sandbox root) is empty, whatever the
\* workspace holds and whichever workspace backend made the sandbox
C4_BaselinePassEmptyPatch ==
    pc \in {"cleanup", "done"} /\ baseline_ok => final_patch = <<>>

\* every call of the proposer so far returned an empty or white-space diff
OnlyEmptyDiffs ==
    /\ calls.propose = attempts_used
    /\ \A i \in 1..attempts_used :
          attempt_records[i].proposed.has /\ attempt_records[i].proposed.diff \in {DiffEmpty, DiffBlank}

\* the sandbox as create_sandbox made it from the workspace
SandboxAsCreated ==
    FilesUnder(fs, SandboxRoot) =
        DOMAIN (IF sandbox.workspace_backend = "copy"
                THEN _copy_sandbox(fs, WorkspaceRoot, SandboxRoot)
                ELSE _git_worktree_sandbox(fs, workspace, WorkspaceRoot, SandboxRoot))
    /\ \A loc \in FilesUnder(fs, SandboxRoot) :
          RelOf(SandboxRoot, loc) # <<".git">> => fs[loc] = fs[WorkspaceRoot \o RelOf(SandboxRoot, loc)]

\* the baseline failed, and the session is in its loop or past it with its sandbox
AfterFailedBaseline == ~baseline_ok /\ pc \in {"propose", "apply", "verify", "finalize", "attest", "cleanup"}

\* no patch applied, no target run after the baseline, the sandbox as created
OnlyBaselineRan ==
    /\ op = NoOp
    /\ calls.targets = Len(targets)
    /\ SandboxAsCreated
    /\ ~success

\* C25 as stated: when the proposer returns an empty diff on every attempt,
\* the session performs exactly max_attempts attempts, never modifies the
\* sandbox, runs no verification round beyond the baseline and ends with
\* success = false
C25_AsStated ==
    AfterFailedBaseline /\ OnlyEmptyDiffs =>
        /\ OnlyBaselineRan
        /\ pc \notin {"propose", "apply", "verify"} => attempts_used = policy.max_attempts

\* C25 amended: when the baseline failed and every diff the proposer returned
\* is empty or white space, the session performs exactly max(0, max_attempts)
\* attempts, applies no patch and leaves the sandbox as it was created, runs
\* no proof target after the baseline, and ends with success = false
C25_EmptyDiffsOnly ==
    AfterFailedBaseline /\ OnlyEmptyDiffs =>
        /\ OnlyBaselineRan
        /\ attempts_used <= Max(0, policy.max_attempts)
        /\ pc \notin {"propose", "apply", "verify"} => attempts_used = Max(0, policy.max_attempts)

\* a session past its loop whose two attempts got an empty diff and a diff of
\* white space
C25_Witness ==
    /\ pc = "cleanup" /\ ~baseline_ok /\ OnlyEmptyDiffs
    /\ policy.max_attempts = 2 /\ attempts_used = 2
    /\ attempt_records[1].proposed.diff = DiffEmpty
    /\ attempt_records[2].proposed.diff = DiffBlank

\* the attempts that did not end the session in success: all but a last one
\* whose verification passed
FailedAttempts == IF success /\ ~baseline_ok THEN attempts_used - 1 ELSE attempts_used

\* C29: every attempt that does not end the session in success appends
\* exactly one feedback entry, so the proposer call of attempt n gets the
\* feedback of the n-1 earlier attempts in attempt order; the entry of an
\* apply rejection or of a duplicate carries the rejection reason
C29_OneFeedbackPerAttempt ==
    /\ Len(previous_errors) = FailedAttempts
    /\ pc = "propose" => Len(previous_errors) = attempt_no - 1
    /\ \A i \in 1..Len(previous_errors) :
          /\ attempt_records[i].number = i
          /\ previous_errors[i] = IF attempt_records[i].apply_ok THEN "verify failed"
                                  ELSE attempt_records[i].error
          /\ Repeats(i) => previous_errors[i] = "Patch apply rejected: repeated diff"
          /\ (op.fn = "apply_patch_with_fallback" /\ op.n = i /\ op.err # "")
                => previous_errors[i] = "Patch apply rejected: " \o op.err

\* the proposer is about to be called for attempt 2 with the one entry of
\* attempt 1, whose patch the applier rejected
C29_Witness ==
    /\ pc = "propose" /\ attempt_no = 2
    /\ op.fn = "apply_patch_with_fallback" /\ op.n = 1 /\ op.err # ""
    /\ previous_errors = <<"Patch apply rejected: " \o op.err>>

\* C30: every attempt that does not end in success is recorded with an
\* error - AttemptRecord.error set and attempts/<n>/error.txt written - after
\* a provider error, an empty or repeated diff, an apply rejection, and after
\* a failed verification of an applied patch
C30_FailedAttemptHasError ==
    \A i \in 1..FailedAttempts :
        attempt_records[i].error # "" /\ HasArt(attempt_records[i].number, "error.txt")

\* the place of a file of attempts/<n> in the order proposed.json,
\* applied.patch, patch_stats.json, changed_paths.json, verify/*; 0 for error.txt
ArtifactRank(name) ==
    IF name = "proposed.json" THEN 1
    ELSE IF name = "applied.patch" THEN 2
    ELSE IF name = "patch_stats.json" THEN 3
    ELSE IF name = "changed_paths.json" THEN 4
    ELSE IF name \in {"verify/target.json", "verify/target_results.json", "verify/verify.json"} THEN 5
    ELSE 0

\* the apply of attempt a succeeded
ApplySucceeded(a) ==
    \/ a <= attempts_used /\ attempt_records[a].apply_ok
    \/ op.fn = "apply_patch_with_fallback" /\ op.n = a /\ op.err = ""

\* C31: within an attempt the artifacts are written in the order
\* proposed.json, applied.patch, patch_stats.json, changed_paths.json,
\* verify/*: none is written before an earlier one of the sequence, and
\* changed_paths.json and verify/* exist only for attempts whose apply succeeded
C31_ArtifactOrder ==
    \A j \in 1..Len(bundle) :
        bundle[j].a >= 1 /\ ArtifactRank(bundle[j].f) > 0 =>
            /\ \A r \in 1..(ArtifactRank(bundle[j].f) - 1) :
                  \E i \in 1..(j - 1) : bundle[i].a = bundle[j].a /\ ArtifactRank(bundle[i].f) = r
            /\ \A i \in 1..(j - 1) :
                  bundle[i].a = bundle[j].a /\ ArtifactRank(bundle[i].f) > 0
                      => ArtifactRank(bundle[i].f) <= ArtifactRank(bundle[j].f)
            /\ ArtifactRank(bundle[j].f) >= 4 => ApplySucceeded(bundle[j].a)

\* attempt 2 wrote all five kinds of artifact after attempt 1 was rejected
\* by the applier with its first three
C31_Witness ==
    /\ attempts_used >= 1 /\ ~attempt_records[1].apply_ok
    /\ HasArt(1, "patch_stats.json") /\ ~HasArt(1, "changed_paths.json")
    /\ HasArt(2, "changed_paths.json") /\ HasArt(2, "verify/target_results.json")

----------------------------------------------------------------------------
(* Properties of patch application *)

\* the locations whose file was created, modified or deleted between two
\* file systems
ChangedLocs(before, after) ==
    {loc \in DOMAIN before \cup DOMAIN after :
        \/ loc \notin DOMAIN before
        \/ loc \notin DOMAIN after
        \/ before[loc] # after[loc]}

\* an apply call has returned
Applied == op.fn \in {"apply_unified_diff", "apply_patch_with_fallback"}

\* C5: every file that a successfully applied patch creates, modifies or
\* deletes in the sandbox has a path that passes the policy path check: it
\* matches a write_allowlist glob and no deny_write glob
C5_TouchedPathsAllowed ==
    Applied /\ op.err = "" =>
        \A loc \in ChangedLocs(op.pre, fs) :
            Under(sandbox.root, loc) =>
                _is_path_allowed(AsPosix(RelOf(sandbox.root, loc)), policy)

\* the diff of the last call parses and one of its file targets fails the
\* policy path check
HasDeniedTarget ==
    LET parsed == parse_unified_diff(op.diff)
    IN /\ parsed.ok
       /\ \E n \in 1..Len(parsed.files) : ~_is_path_allowed(rel_path(parsed.files[n]), policy)

\* C6: a diff in which any file target fails the policy path check is
\* rejected with an error and no file is modified, by apply_unified_diff and
\* by apply_patch_with_fallback alike
C6_DeniedDiffChangesNothing ==
    Applied /\ HasDeniedTarget => op.err # "" /\ fs = op.pre

\* C7: during an attempt no file is created, modified or deleted outside
\* the sandbox root, whatever diff the proposer returns
C7_NothingOutsideSandbox ==
    [][InLoop => \A loc \in ChangedLocs(fs, fs') : Under(SandboxRoot, loc)]_vars

\* C8: a session never creates, modifies or deletes a file under the
\* workspace root (the bundle under .pp-artifacts is kept apart from fs)
C8_WorkspaceUntouched ==
    [][\A loc \in ChangedLocs(fs, fs') : ~Under(WorkspaceRoot, loc)]_vars

\* the files of the sandbox
SandboxTree == [loc \in FilesUnder(fs, SandboxRoot) |-> fs[loc]]

\* the last call of the applier, made for the attempt recorded last, raised
LastApplyRejected ==
    /\ op.fn = "apply_patch_with_fallback" /\ op.err # ""
    /\ op.n = attempts_used /\ pc \in {"propose", "finalize"}

\* C38: an attempt recorded with apply_ok = false leaves every file of the
\* sandbox as it was before the attempt: a rejected patch changes nothing,
\* also when a later file of it fails after an earlier file matched
C38_RejectedApplyChangesNothing ==
    /\ [](LastApplyRejected => ~attempt_records[op.n].apply_ok /\ fs = op.pre)
    /\ [][pc = "propose" /\ pc' # "apply" => fs' = fs]_vars

\* C32: the sandbox is cumulative: between the baseline and the end of the
\* loop its files change only when a diff is applied successfully, so at the
\* start of attempt n it is the baseline copy with the applied diffs of
\* attempts 1..n-1 in order, a failed verification reverting nothing; and
\* final.patch is the directory diff of the workspace and that sandbox
C32_SandboxCumulative ==
    [][ /\ (pc \in {"baseline", "propose", "apply", "verify"} /\ SandboxTree' # SandboxTree)
            => pc = "apply" /\ pc' = "verify"
        /\ pc = "finalize" => final_patch' = diff_between_dirs(fs, WorkspaceRoot, sandbox.root) ]_vars

----------------------------------------------------------------------------
(* Properties of the end of a session *)

\* C11: in every session that produces an attestation, attestation.json
\* is the last file written to the proof bundle, whatever the options, and
\* verify_attestation on the bundle the session returns is ok
C11_AttestationLast ==
    SessionOver /\ HasArt(-1, _ATTESTATION_FILENAME)
        => /\ Last(bundle).f = _ATTESTATION_FILENAME
           /\ verify_attestation(bundle_dir, environ).ok

\* the positions of the bundle at which the file was written
Written(a, name) == {n \in 1..Len(bundle) : bundle[n].a = a /\ bundle[n].f = name}

\* RunSummary(success=success, attempts_used=len(attempt_records), ...)
RunSummary == [success |-> success, attempts_used |-> attempts_used]

\* C14: a session whose baseline run completed has written final.patch,
\* final_summary.md and repro.json when it is over, with success or with
\* the budget exhausted, and repro.json records the success flag and the
\* attempts_used of the summary returned
C14_BundleAlwaysWritten ==
    /\ SessionOver \/ (pc = "raised" /\ HasArt(0, "target_results.json"))
           => \A name \in {"final.patch", "final_summary.md", "repro.json"} :
                 Cardinality(Written(-1, name)) = 1
    /\ SessionOver
           => \A n \in Written(-1, "repro.json") : bundle[n].v = RunSummary

C14_Witness ==
    /\ SessionOver /\ ~success /\ attempts_used = MaxAttemptsBound
    /\ \A n \in Written(-1, "repro.json") : bundle[n].v = RunSummary

\* final.patch has been written
PatchWritten == pc \in {"attest", "cleanup", "done"}

\* C12: after a success with policy.minimize enabled the final.patch
\* written is 1-minimal: without any single one of its hunks the patch
\* does not apply to the baseline or does not make all proof targets pass
C12_FinalPatchOneMinimal ==
    PatchWritten /\ success /\ policy.minimize /\ final_patch # <<>>
        => Removable(parse_unified_diff(final_patch).files, fs, WorkspaceRoot, targets,
                     policy) = {}

\* C17: the final.patch a session writes is at most
\* policy.limits.max_patch_bytes bytes long
C17_FinalPatchWithinLimit ==
    PatchWritten => PatchBytes(final_patch) <= policy.max_patch_bytes

\* C13: when the session returns or raises, every sandbox it created has
\* been destroyed, unless keep_sandbox was requested
C13_SandboxDestroyed ==
    pc \in {"done", "raised"} /\ ~options.keep_sandbox => FilesUnder(fs, TmpParent) = {}

----------------------------------------------------------------------------
(* Properties of verification rounds *)

\* the positions of the bundle that hold the target_results.json of a round
Rounds == {n \in 1..Len(bundle) : bundle[n].f \in {"target_results.json", "verify/target_results.json"}}

\* the result file of target k of the round whose rows are at position n
ResultOf(n, k) == bundle[n - Len(targets) + k - 1]

\* the round at position n was reported as passed: the baseline as
\* baseline_ok, the round of an attempt as the success that ended the loop
ReportedPass(n) ==
    IF bundle[n].a = 0 THEN baseline_ok
    ELSE success /\ ~baseline_ok /\ Last(attempt_records).number = bundle[n].a

\* C18: a verification round runs every configured proof target exactly
\* once, in configured order, also after a target has failed; it records
\* one row per target; and it reports pass iff every target exited 0
C18_EveryTargetOnce ==
    /\ calls.targets = Len(targets) * Cardinality(Rounds)
    /\ \A n \in Rounds :
          /\ n > Len(targets)
          /\ Len(bundle[n].v) = Len(targets)
          /\ \A k \in 1..Len(targets) :
                /\ bundle[n].v[k].cmd = targets[k]
                /\ ResultOf(n, k).a = bundle[n].a /\ ResultOf(n, k).i = k
                /\ ResultOf(n, k).v.cmd = targets[k]
                /\ ResultOf(n, k).v.exit_code = bundle[n].v[k].exit_code
          /\ ReportedPass(n) <=> \A k \in 1..Len(targets) : bundle[n].v[k].exit_code = 0

\* a round of two targets in which the first target failed and the second passed
C18_Witness ==
    \E n \in Rounds :
        /\ Len(targets) = 2
        /\ bundle[n].v[1].exit_code # 0
        /\ bundle[n].v[2].exit_code = 0
        /\ ~ReportedPass(n)

\* the results written by a step whose stderr ends in the timeout diagnostic
TimedOutNow(b, b2) ==
    {n \in Len(b) + 1..Len(b2) :
        /\ b2[n].i > 0
        /\ b2[n].v.stderr # <<>>
        /\ Last(b2[n].v.stderr) = TimeoutDiagnostic}

\* a step of the baseline run or of a verification in which a command ran
\* into the timeout: the result has exit code 124, the round counts as
\* failed, and the session goes on to the next attempt or to its end
C19_Step ==
    pc \in {"baseline", "verify"} /\ TimedOutNow(bundle, bundle') # {}
        => /\ \A n \in TimedOutNow(bundle, bundle') : bundle'[n].v.exit_code = 124
           /\ ~success'
           /\ final_result'.exit_code # 0
           /\ pc' = LoopHead(attempt_no', policy.max_attempts)
           /\ pc = "baseline" => ~baseline_ok' /\ attempt_no' = 1
           /\ pc = "verify"
                 => /\ attempt_no' = attempt_no + 1
                    /\ attempt_records' = Append(attempt_records,
                                                  AttemptRecord(attempt_no, proposal, TRUE,
                                                                final_result', ""))

\* C19: a proof-target command that exceeds per_command_timeout_sec makes
\* run_command return exit code 124 with the timeout diagnostic at the end
\* of stderr; the session takes it as a failed verification and continues
\* with the next attempt or ends with success = false, it does not abort
C19_TimeoutNotFatal == [][C19_Step]_vars

\* a verification timed out and the session went on to another attempt
C19_Witness ==
    /\ Len(attempt_records) >= 2
    /\ attempt_records[1].apply_ok
    /\ attempt_records[1].verify_result.exit_code = 124
    /\ Last(attempt_records[1].verify_result.stderr) = TimeoutDiagnostic
    /\ pc # "raised"

\* the round that ran last: the verification of the last attempt whose patch
\* applied, the baseline when there is none
LastRound ==
    IF \E i \in 1..attempts_used : attempt_records[i].apply_ok
    THEN [a |-> CHOOSE i \in 1..attempts_used :
                   /\ attempt_records[i].apply_ok
                   /\ \A j \in (i + 1)..attempts_used : ~attempt_records[j].apply_ok,
          prefix |-> "verify/"]
    ELSE [a |-> 0, prefix |-> ""]

\* the result files a round wrote, by position of the target
ResultFile(a, prefix, n) ==
    bundle[CHOOSE k \in 1..Len(bundle) :
              bundle[k].a = a /\ bundle[k].f = prefix \o "target.json" /\ bundle[k].i = n].v

\* the result of the first target of a round that failed, of its last target
\* when none did
FirstFailingOrLast(a, prefix) ==
    LET failing == {n \in 1..Len(targets) : ResultFile(a, prefix, n).exit_code # 0}
    IN ResultFile(a, prefix, IF failing = {} THEN Len(targets)
                             ELSE CHOOSE n \in failing : \A m \in failing : n <= m)

\* a round has returned, and the session goes on with its result
RoundReturned == pc \in {"propose", "apply", "verify", "finalize", "attest", "cleanup", "done"}

\* C27: the representative result of a verification round - the failure
\* output the next proposer call gets, the verify_result of the attempt
\* record, the session's final_result - is the result of the first failing
\* target in configured order, or of the last target when all passed
C27_Representative ==
    RoundReturned =>
        /\ final_result = FirstFailingOrLast(LastRound.a, LastRound.prefix)
        /\ \A i \in 1..attempts_used :
              attempt_records[i].apply_ok =>
                  attempt_records[i].verify_result = FirstFailingOrLast(i, "verify/")

\* the proposer is about to be called with the result of the first of two
\* targets, which failed in the verification of attempt 1 while the second
\* passed
C27_Witness ==
    /\ pc = "propose" /\ attempt_no = 2 /\ Len(targets) = 2
    /\ attempt_records[1].apply_ok
    /\ final_result = ResultFile(1, "verify/", 1)
    /\ final_result.exit_code # 0
    /\ ResultFile(1, "verify/", 2).exit_code = 0

\* the proposer is called in this step
ProposerCalled == calls'.propose > calls.propose

\* the proof targets of an attempt are run in this step
AttemptVerified == pc = "verify" /\ calls'.targets > calls.targets

\* the diff of the attempt under way was applied by the last call of the applier
DiffApplied == op.fn = "apply_patch_with_fallback" /\ op.n = attempt_no /\ op.diff = proposal.diff /\ op.err = ""

\* C28 as stated: the proposer is never invoked before the baseline has
\* failed nor after a verification round has passed; the proof targets of
\* attempt n are run only after that attempt's diff was applied; at most
\* 1 + max_attempts verification rounds are run outside minimisation
C28_AsStated ==
    [][ /\ ProposerCalled => HasArt(0, "target_results.json") /\ ~baseline_ok /\ ~success
        /\ AttemptVerified => DiffApplied
        /\ Cardinality(Rounds)' <= 1 + policy.max_attempts ]_vars

\* C28 amended: as stated, with at most 1 + max(0, max_attempts) rounds
C28_StepsOrdered ==
    [][ /\ ProposerCalled => HasArt(0, "target_results.json") /\ ~baseline_ok /\ ~success
        /\ AttemptVerified => DiffApplied
        /\ Cardinality(Rounds)' <= 1 + Max(0, policy.max_attempts) ]_vars

\* a session of two attempts whose second verification passed: the baseline
\* and two rounds, after two calls of the proposer
C28_Witness ==
    /\ pc = "finalize" /\ success /\ ~baseline_ok
    /\ policy.max_attempts = 2 /\ attempts_used = 2 /\ calls.propose = 2
    /\ attempt_records[1].apply_ok
    /\ Cardinality(Rounds) = 3

----------------------------------------------------------------------------
(* Properties of replay *)

\* the files below a root, by their relative paths
TreeOf(f, root) == [rel \in {RelOf(root, loc) : loc \in FilesUnder(f, root)} |-> f[root \o rel]]

\* a call of replay
C15_Step ==
    pc = "done" /\ pc' = "replayed"
        => /\ TreeOf(fs', WorkspaceRoot) = TreeOf(fs, WorkspaceRoot)
           /\ FilesUnder(fs', ReplayParent) = {}
           /\ ~replayed'.raised
                 => /\ Len(replayed'.rows) = Len(targets)
                    /\ \A k \in 1..Len(targets) : replayed'.rows[k].cmd = targets[k]
                    /\ replayed'.success
                          <=> \A k \in 1..Len(targets) : replayed'.rows[k].exit_code = 0

\* C15: replay works on a temporary copy of the source workspace: it
\* applies final.patch to the copy, runs every recorded proof target there
\* and reports success iff all exit 0; the source workspace is never
\* modified and the copy is removed, on return and on error
C15_ReplayInCopy == [][C15_Step]_vars

\* no command of the session or of the replay ran into the timeout
NoTimeout ==
    /\ \A n \in 1..Len(bundle) : bundle[n].i > 0 => bundle[n].v.exit_code # 124
    /\ \A k \in 1..Len(replayed.rows) : replayed.rows[k].exit_code # 124

\* C16: the bundle of a session that ended with success = true replays:
\* final.patch is applied under the policy of the bundle without being
\* rejected, and replay returns success = true
C16_ReplayReproduces ==
    replayed.called /\ replayed.patch_text = final_patch /\ success /\ NoTimeout
        => ~replayed.raised /\ replayed.success

----------------------------------------------------------------------------
(* The command line: each subcommand handler returns the exit code, and    *)
(* main turns what leaves the handler into the exit code of the process.   *)

\* cli._cmd_run: 0 if summary.success else 2
_cmd_run(summary_success) == IF summary_success THEN 0 ELSE 2

\* cli._cmd_prove: 0 if summary.success else 2
_cmd_prove(summary_success) == IF summary_success THEN 0 ELSE 2

\* cli._cmd_replay: 0 if result["success"] else 2, in the json branch and in
\* the text branch; result["attestation"] is printed only
_cmd_replay(result) == IF result.success THEN 0 ELSE 2

\* cli._cmd_doctor
_cmd_doctor == 0

\* cli._cmd_attest: the path is printed
_cmd_attest == 0

\* cli._cmd_verify_attestation: 0 if result.get("ok") else 2
_cmd_verify_attestation(result) == IF result.ok THEN 0 ELSE 2

\* what leaves args.func(args): a returned code or an exception
Returned(code) == [kind |-> "returned", code |-> code]
Raised(kind) == [kind |-> kind, code |-> 0]

\* cli.main from the try on
main(outcome) ==
    IF outcome.kind = "KeyboardInterrupt" THEN 130
    ELSE IF outcome.kind = "Exception" THEN 1
    ELSE outcome.code

\* the bundle directory a replay reads: the one of the session, with the
\* final.patch that was replayed
ReplayBundleDir ==
    IF replayed.patch_text = final_patch THEN bundle_dir
    ELSE [rel \in DOMAIN bundle_dir \cup {"final.patch"} |->
             IF rel = "final.patch" THEN <<replayed.patch_text>> ELSE bundle_dir[rel]]

\* session.py lines 769-778: the payload of replay, with the verdict of
\* verify_attestation in it under verify_bundle_attestation
ReplayPayload(verify_bundle_attestation) ==
    [success |-> replayed.success, verified |-> verify_bundle_attestation,
     attestation |-> verify_attestation(ReplayBundleDir, environ)]

\* pp run / pp prove as the session went
RunOutcome == IF pc = "raised" THEN Raised("Exception") ELSE Returned(_cmd_run(success))

\* pp replay as the replay went
ReplayOutcome(verify_bundle_attestation) ==
    IF replayed.raised THEN Raised("Exception")
    ELSE Returned(_cmd_replay(ReplayPayload(verify_bundle_attestation)))

\* pp verify-attestation on the bundle of the session
VerifyOutcome == Returned(_cmd_verify_attestation(verify_attestation(bundle_dir, environ)))

\* the operation succeeded: the replay passed, and the attestation it was
\* asked to verify is ok
ReplaySucceeded(verify_bundle_attestation) ==
    /\ replayed.success
    /\ verify_bundle_attestation => verify_attestation(ReplayBundleDir, environ).ok

\* C20: the exit code is 0 iff the invoked operation succeeded (session
\* success, replay success, attestation ok), 2 when verification did not
\* pass or the attestation is invalid, 1 when an error is raised, 130 on a
\* keyboard interrupt, and nothing else
C20_ExitCodes ==
    /\ main(Raised("KeyboardInterrupt")) = 130
    /\ pc = "raised" => main(RunOutcome) = 1
    /\ SessionOver =>
          /\ main(RunOutcome) = (IF success THEN 0 ELSE 2)
          /\ main(VerifyOutcome) = (IF verify_attestation(bundle_dir, environ).ok THEN 0 ELSE 2)
    /\ replayed.called =>
          \A verify_bundle_attestation \in BOOLEAN :
             main(ReplayOutcome(verify_bundle_attestation)) =
                (IF replayed.raised THEN 1
                 ELSE IF ReplaySucceeded(verify_bundle_attestation) THEN 0
                 ELSE 2)

----------------------------------------------------------------------------
(* Properties of the policy file *)

\* the policy file lists allowed commands, and a proof target of the
\* session is not among them
TargetNotListed ==
    /\ options.listed # <<>>
    /\ \E n \in 1..Len(targets) : \A k \in 1..Len(options.listed) : options.listed[k] # targets[n]

\* C22: when the policy file lists a non-empty allowed_commands that does
\* not contain a proof-target command, the session aborts before the
\* sandbox is created, before any command runs and before any artifact is
\* written, under run <command> as under prove
C22_UnlistedCommandNeverRuns ==
    TargetNotListed =>
        /\ pc \in {"start", "raised"}
        /\ sandbox.backend = "none"
        /\ calls.targets = 0
        /\ bundle = <<>>

----------------------------------------------------------------------------
(* The directory diff and the renderer on their own: a workspace tree, a   *)
(* sandbox tree, and calls of diff_between_dirs, apply_unified_diff and    *)
(* render_patch_from_filepatches on them.                                  *)

NotesTxt == <<"notes.txt">>

\* a line of two spaces
LineBlank == Ln(2, "")

\* the contents src/m.py has in the trees compared
DirContents ==
    { File(<<LineA>>), File(<<LineB>>), File(<<LineA, LineB>>), File(<<LineA, EmptyLine>>),
      File(<<LineB, EmptyLine>>), File(<<LineA, LineBlank>>) }

\* a tree below root: src/m.py, and notes.txt when with_notes
DirTree(root, content, with_notes) ==
    [loc \in {root \o <<"src", "m.py">>} \cup (IF with_notes THEN {root \o NotesTxt} ELSE {}) |->
        IF loc = root \o NotesTxt THEN File(<<LineT>>) ELSE content]

\* where the copy of the workspace is made
CopyRoot == <<"pp-copy", "workspace">>

\* src/m.py: a -> b before a blank line, as difflib prints it
DiffBlankContext ==
    <<OldLine(<<"a", "/">> \o SrcM), NewLine(<<"b", "/">> \o SrcM), HdrLine(1, 2, 1, 2),
      DelLine(LineA), AddLine(LineB), CtxLine(EmptyLine)>>

\* src/m.py: a line of two spaces after line a
DiffBlankAdded ==
    <<OldLine(<<"a", "/">> \o SrcM), NewLine(<<"b", "/">> \o SrcM), HdrLine(1, 1, 1, 2),
      CtxLine(LineA), AddLine(LineBlank)>>

\* src/m.py: a -> b as git diff prints it, the new file without a last newline
DiffGit ==
    <<GitLine(<<"a", "/">> \o SrcM, <<"b", "/">> \o SrcM)>> \o DiffFix
    \o <<DLine("nonl", <<>>, <<>>, <<0, 0, 0, 0>>, EmptyLine)>>

RenderDiffs == {DiffFix, DiffWrong, DiffTwoFiles, DiffDotDot, DiffGit, DiffBlankContext, DiffBlankAdded}

InitDirs ==
    /\ \E wc \in DirContents, sc \in DirContents, wn \in BOOLEAN, sn \in BOOLEAN :
          fs = Merge(DirTree(WorkspaceRoot, wc, wn), DirTree(SandboxRoot, sc, sn))
    /\ policy = PolicyOf(<<StarStar>>, <<>>)
    /\ sandbox = SandboxOf("copy")
    /\ op = NoOp
    /\ SessionIdle
    /\ AttestIdle

\* the directory diff of the two trees, applied to a copy of the workspace;
\* rest is the directory diff of the patched copy against the sandbox
AppliedToCopy(d, f, pol) ==
    LET r == apply_unified_diff(d, Merge(f, _copy_sandbox(f, WorkspaceRoot, CopyRoot)), CopyRoot, pol)
    IN [fn |-> "diff_between_dirs", diff |-> d, err |-> r.err,
        rest |-> diff_between_dirs(r.fs, CopyRoot, SandboxRoot)]

CallDiffBetweenDirs ==
    /\ UNCHANGED attestVars
    /\ op.n < MaxCalls
    /\ op' = AppliedToCopy(diff_between_dirs(fs, WorkspaceRoot, SandboxRoot), fs, policy)
                @@ [n |-> op.n + 1]
    /\ UNCHANGED <<fs, policy, sandbox, sessVars>>

\* parse, render, parse again
ParsedAgain(parsed) == parse_unified_diff(render_patch_from_filepatches(parsed.files))

CallRenderPatch ==
    /\ UNCHANGED attestVars
    /\ op.n < MaxCalls
    /\ \E d \in RenderDiffs \cup {diff_between_dirs(fs, WorkspaceRoot, SandboxRoot)} :
          /\ parse_unified_diff(d).ok
          /\ op' = [fn |-> "render_patch_from_filepatches", diff |-> d,
                    parsed |-> parse_unified_diff(d),
                    again |-> ParsedAgain(parse_unified_diff(d)), n |-> op.n + 1]
    /\ UNCHANGED <<fs, policy, sandbox, sessVars>>

\* the contents of src/m.py that hunks are applied to
HunkFiles ==
    { <<LineA, LineB, LineC, LineA, LineB>>, <<LineA, LineB, LineT, LineB, LineA>>,
      <<LineB, Ln(2, "a"), LineC, LineC, Ln(1, "a")>>, <<LineA>> }

\* the bodies of the hunks: each with context or removal lines
HunkBodies ==
    { <<CtxLine(LineA), DelLine(LineB), AddLine(LineT)>>, <<DelLine(LineA), AddLine(LineB)>>,
      <<DelLine(LineB), AddLine(LineC)>>, <<CtxLine(Ln(1, "a")), AddLine(LineT)>> }

OldSize(body) == Cardinality({n \in 1..Len(body) : body[n].k \in {"ctx", "del"}})

NewSize(body) == Cardinality({n \in 1..Len(body) : body[n].k \in {"ctx", "add"}})

\* a hunk as text: its header, whose counts are those of its body, and its body
HunkText(old_start, body) ==
    <<HdrLine(old_start, OldSize(body), old_start, NewSize(body))>> \o body

MaxStart == 6

\* patches of src/m.py with one hunk or two
HunkPatches ==
    { <<OldLine(<<"a", "/">> \o SrcM), NewLine(<<"b", "/">> \o SrcM)>> \o HunkText(s1, b1) \o more :
        s1 \in 1..MaxStart, b1 \in HunkBodies,
        more \in {<<>>} \cup {HunkText(MaxStart, b2) : b2 \in HunkBodies} }

\* apply_unified_diff on a tree that holds src/m.py with the given lines
HunksApplied(d, lines, pol) ==
    LET r == apply_unified_diff(d, [loc \in {CopyRoot \o <<"src", "m.py">>} |-> File(lines)],
                                CopyRoot, pol)
    IN [fn |-> "apply_unified_diff", diff |-> d, lines |-> lines, err |-> r.err,
        out |-> r.fs[CopyRoot \o <<"src", "m.py">>].lines,
        spans |-> ApplyHunks(lines, parse_unified_diff(d).files[1].hunks, 1, 0).spans]

NextDirs == CallDiffBetweenDirs \/ CallRenderPatch

SpecDirs == InitDirs /\ [][NextDirs]_vars

\* C24: for every valid unified diff D, parsing the rendering of parse(D)
\* gives parse(D) back: the same files, paths, hunk headers and hunk lines
C24_ParseRenderParse ==
    op.fn = "render_patch_from_filepatches" => op.again = op.parsed

----------------------------------------------------------------------------
(* The hunk loop on its own: calls of apply_unified_diff with patches of   *)
(* one file whose hunk headers point anywhere in the file.                 *)

InitHunks ==
    /\ fs = Merge(TreeAt(SandboxRoot, LineA), TreeAt(WorkspaceRoot, LineA))
    /\ policy = PolicyOf(<<StarStar>>, <<>>)
    /\ sandbox = SandboxOf("copy")
    /\ op = NoOp
    /\ SessionIdle
    /\ AttestIdle

CallApplyHunks ==
    /\ UNCHANGED attestVars
    /\ op.n < 1
    /\ \E d \in HunkPatches, lines \in HunkFiles :
          op' = HunksApplied(d, lines, policy) @@ [n |-> 1]
    /\ UNCHANGED <<fs, policy, sandbox, sessVars>>

\* src/m.py: the two lines of a file header and no hunk
DiffHeadersOnly == <<OldLine(<<"a", "/">> \o SrcM), NewLine(<<"b", "/">> \o SrcM)>>

\* the patches parsed: without text, without hunks, with hunks
ParseDiffs ==
    { DiffEmpty, DiffBlank, DiffHeadersOnly,
      <<GitLine(<<"a", "/">> \o SrcM, <<"b", "/">> \o SrcM)>> \o DiffHeadersOnly,
      DiffHeadersOnly \o DiffFix, DiffFix, DiffTwoFiles }

CallParseUnifiedDiff ==
    /\ UNCHANGED attestVars
    /\ op.n < 1
    /\ \E d \in ParseDiffs :
          op' = [fn |-> "parse_unified_diff", diff |-> d, out |-> parse_unified_diff(d), n |-> 1]
    /\ UNCHANGED <<fs, policy, sandbox, sessVars>>

\* create_sandbox with the container backend as well: a container sandbox is
\* a copy whose commands run under the runtime, and it needs the runtime on
\* the PATH (has_runtime)
SandboxCreated(f, ws, pol, workspace_root, has_runtime) ==
    IF pol.backend = "container"
    THEN IF has_runtime
         THEN [workspace_backend |-> "copy", backend |-> "container", err |-> ""]
         ELSE [workspace_backend |-> "", backend |-> "", err |-> "RuntimeError"]
    ELSE IF create_sandbox(f, ws, pol, workspace_root) = "error"
         THEN [workspace_backend |-> "", backend |-> "", err |-> "RuntimeError"]
    ELSE [workspace_backend |-> create_sandbox(f, ws, pol, workspace_root),
          backend |-> "native", err |-> ""]

SandboxBackends == {"auto", "copy", "git_worktree", "container"}

CallCreateSandbox ==
    /\ UNCHANGED attestVars
    /\ op.n < 1
    /\ \E variant \in WorkspaceVariants, requested \in SandboxBackends, has_runtime \in BOOLEAN :
          op' = [fn |-> "create_sandbox", variant |-> variant, requested |-> requested,
                 has_runtime |-> has_runtime, n |-> 1,
                 out |-> SandboxCreated(WorkspaceFs(variant, LineA), WorkspaceGit(variant),
                                        [policy EXCEPT !.backend = requested],
                                        WorkspaceRoot, has_runtime)]
    /\ UNCHANGED <<fs, policy, sandbox, sessVars>>

NextHunks == CallApplyHunks \/ CallParseUnifiedDiff \/ CallCreateSandbox

SpecHunks == InitHunks /\ [][NextHunks]_vars

----------------------------------------------------------------------------
(* The minimiser step by step: minimize_patch_hunks as its loop runs, one  *)
(* candidate per step, on a baseline that holds src/m.py and               *)
(* secrets/k.txt.                                                          *)

\* the lines src/m.py has in the baseline
MinimizeContents ==
    { <<LineA, LineT, LineC>>, <<LineA, LineT, LineT>>, <<LineB, LineT, LineC>>,
      <<LineA, LineT, EmptyLine>> }

MinimizeTree(lines) ==
    [loc \in {WorkspaceRoot \o <<"src", "m.py">>, WorkspaceRoot \o <<"secrets", "k.txt">>} |->
        IF loc = WorkspaceRoot \o <<"src", "m.py">> THEN File(lines) ELSE File(<<LineS>>)]

\* the hunks of src/m.py: line 1 a -> b, line 2 t -> s, line 3 c -> t
HunkA == HunkText(1, <<DelLine(LineA), AddLine(LineB)>>)
HunkT == HunkText(2, <<DelLine(LineT), AddLine(LineS)>>)
HunkC == HunkText(3, <<DelLine(LineC), AddLine(LineT)>>)

\* line 1 a -> b with two lines of context, the second an empty line
HunkBlank == HunkText(1, <<DelLine(LineA), AddLine(LineB), CtxLine(LineT), CtxLine(EmptyLine)>>)

\* the patches minimised: up to three hunks of src/m.py, then up to one of
\* secrets/k.txt; a patch without text; a file header without hunks
MinimizePatches ==
    { DiffHeadersOnly \o hs \o more :
        hs \in { HunkA, HunkT, HunkC, HunkA \o HunkT, HunkA \o HunkC, HunkT \o HunkC,
                 HunkA \o HunkT \o HunkC, HunkBlank },
        more \in {<<>>, DiffSecret} }
    \cup { DiffSecret, DiffEmpty, DiffHeadersOnly \o DiffSecret }

MinimizeTargets == { <<"t1">>, <<"t2">>, <<"t1", "t2">> }

\* the (file, hunk) index pairs of the hunks, in the order of the two for loops
HunkPairs(files) ==
    UNION {{<<i, j>> : j \in 1..Len(files[i].hunks)} : i \in 1..Len(files)}

HunkCount(files) == Cardinality(HunkPairs(files))

PairBefore(o, pr) == o[1] < pr[1] \/ (o[1] = pr[1] /\ o[2] < pr[2])

\* the k-th pair the two for loops visit
PairAt(files, k) ==
    CHOOSE pr \in HunkPairs(files) :
        Cardinality({o \in HunkPairs(files) : PairBefore(o, pr)}) = k - 1

InitMinimize ==
    /\ \E lines \in MinimizeContents : fs = MinimizeTree(lines)
    /\ policy = PolicyOf(<<StarStar>>, <<>>)
    /\ sandbox = SandboxOf("copy")
    /\ op = NoOp
    /\ SessionIdle
    /\ AttestIdle

\* lines 39-47: a patch without text is returned as it is, any other is
\* parsed and the first pass starts
MinimizeStart ==
    /\ UNCHANGED attestVars
    /\ op.fn = "none"
    /\ \E patch_text \in MinimizePatches, tgts \in MinimizeTargets :
          op' = [fn |-> "minimize_patch_hunks", input |-> patch_text, tgts |-> tgts,
                 pc |-> IF patch_text = <<>> THEN "returned" ELSE "loop",
                 current_files |-> IF patch_text = <<>> THEN <<>>
                                   ELSE parse_unified_diff(patch_text).files,
                 k |-> 1, candidates |-> 0, verifications |-> 0, dropped |-> 0,
                 out |-> patch_text]
    /\ UNCHANGED <<fs, policy, sandbox, sessVars>>

\* lines 80-85: a candidate that verified ends the pass and the next pass
\* starts at the first hunk; any other candidate is followed by the next hunk
AfterCandidateSame(passes, k) == IF passes THEN 1 ELSE k

AfterCandidate(passes, k) == IF passes THEN 1 ELSE k + 1

\* lines 62-83: the loop state after a candidate was applied to the copy
\* and, when it applied, verified
CandidateTried(o, candidate_files, applied) ==
    [o EXCEPT !.current_files = IF CandidatePasses(applied, o.tgts) THEN candidate_files ELSE @,
              !.k = AfterCandidate(CandidatePasses(applied, o.tgts), @),
              !.candidates = @ + 1,
              !.verifications = IF applied.err = "" THEN @ + 1 ELSE @,
              !.dropped = IF CandidatePasses(applied, o.tgts) THEN @ + 1 ELSE @]

\* lines 50-78 for one candidate: the files after the temporary copy was
\* made, the candidate applied to it and the copy removed again
CandidateCleaned(applied) == rmtree(applied.fs, <<MinimizeRoot[1]>>)

TryCandidate(candidate_files) ==
    LET applied == CandidateApplied(render_patch_from_filepatches(candidate_files),
                                    Merge(_copy_sandbox(fs, WorkspaceRoot, MinimizeRoot), fs),
                                    policy)
    IN /\ op' = CandidateTried(op, candidate_files, applied)
       /\ fs' = CandidateCleaned(applied)

\* one turn of the inner for loop
MinimizeTry ==
    /\ UNCHANGED attestVars
    /\ op.fn = "minimize_patch_hunks" /\ op.pc = "loop"
    /\ op.k <= HunkCount(op.current_files)
    /\ TryCandidate(CandidateFiles(op.current_files, PairAt(op.current_files, op.k)[1],
                                   PairAt(op.current_files, op.k)[2]))
    /\ UNCHANGED <<policy, sandbox, sessVars>>

\* line 87: a pass that dropped nothing ends the while loop
MinimizeReturn ==
    /\ UNCHANGED attestVars
    /\ op.fn = "minimize_patch_hunks" /\ op.pc = "loop"
    /\ op.k > HunkCount(op.current_files)
    /\ op' = [op EXCEPT !.pc = "returned", !.out = RenderOrBlank(op.current_files)]
    /\ UNCHANGED <<fs, policy, sandbox, sessVars>>

NextMinimize == MinimizeStart \/ MinimizeTry \/ MinimizeReturn

\* a turn of the inner for loop is possible: MinimizeTry is enabled
TryPending ==
    op.fn = "minimize_patch_hunks" /\ op.pc = "loop" /\ op.k <= HunkCount(op.current_files)

\* WF_op(MinimizeTry), with TryPending for ENABLED <<MinimizeTry>>_op
TryFair == []<>~TryPending \/ []<><<MinimizeTry>>_op

\* the loop is sequential code that keeps running until it returns; every
\* step of it changes op
SpecMinimize ==
    InitMinimize /\ [][NextMinimize]_vars
    /\ WF_op(MinimizeStart) /\ TryFair /\ WF_op(MinimizeReturn)

\* the hunks of the patch applied last
OpHunks == parse_unified_diff(op.diff).files[1].hunks

\* the lines a hunk expects in the file, in order
OldSide(hunk) == SelectSeq(hunk.lines, LAMBDA hl : hl.m # "add")

\* every context and removal line of the hunk is the line of the file at idx
\* (counted from 0) and after
MatchesExactlyAt(lines, hunk, idx) ==
    /\ idx + Len(OldSide(hunk)) <= Len(lines)
    /\ \A n \in 1..Len(OldSide(hunk)) : lines[idx + n] = OldSide(hunk)[n].t

\* the same, a line of the file with one more leading space counting as equal
MatchesAt(lines, hunk, idx) ==
    /\ idx + Len(OldSide(hunk)) <= Len(lines)
    /\ \A n \in 1..Len(OldSide(hunk)) : line_matches(lines[idx + n], OldSide(hunk)[n].t)

\* the lines of hunk lines k.. put in place of the lines of the file after cursor
RECURSIVE NewSide(_, _, _, _)
NewSide(lines, hl, k, cursor) ==
    IF k > Len(hl) THEN <<>>
    ELSE IF hl[k].m = "add" THEN <<hl[k].t>> \o NewSide(lines, hl, k + 1, cursor)
    ELSE IF hl[k].m = "del" THEN NewSide(lines, hl, k + 1, cursor + 1)
    ELSE <<lines[cursor + 1]>> \o NewSide(lines, hl, k + 1, cursor + 1)

\* the file with the hunk applied at idx: the lines before and after the
\* matched range as they are
AppliedAt(lines, hunk, idx) ==
    SubSeq(lines, 1, idx) \o NewSide(lines, hunk.lines, 1, idx)
        \o SubSeq(lines, idx + Len(OldSide(hunk)) + 1, Len(lines))

\* a patch of one hunk that does not match where its header says and matches
\* exactly somewhere else
Relocated ==
    /\ op.fn = "apply_unified_diff" /\ Len(OpHunks) = 1
    /\ ~MatchesAt(op.lines, OpHunks[1], Min(OpHunks[1].old_start - 1, Len(op.lines)))
    /\ \E idx \in 0..Len(op.lines) : MatchesExactlyAt(op.lines, OpHunks[1], idx)

C40_HunksInOrder ==
    op.fn = "apply_unified_diff" /\ op.err = "" =>
        \A k \in 2..Len(op.spans) : op.spans[k].start >= op.spans[k - 1].end

\* a patch without any hunk header
ZeroHunks(diff_text) == \A n \in 1..Len(diff_text) : diff_text[n].k # "hdr"

\* C34: parse_unified_diff raises an error for an empty patch and for a
\* patch that has file headers but zero hunks
C34_ParseRejectsNoHunks ==
    op.fn = "parse_unified_diff" /\ ZeroHunks(op.diff) => ~op.out.ok

MinimizeRunning == op.fn = "minimize_patch_hunks"

\* H: the number of hunks of the patch given to the minimiser
InputHunks == IF op.input = <<>> THEN 0 ELSE HunkCount(parse_unified_diff(op.input).files)

\* the candidates tried so far are within H * (H + 1) / 2, and no more of
\* them were verified than were tried
CandidatesBounded ==
    MinimizeRunning =>
        /\ op.verifications <= op.candidates
        /\ 2 * op.candidates <= InputHunks * (InputHunks + 1)

MinimizeReturned == MinimizeRunning /\ op.pc = "returned"

\* the minimiser has returned within the bound
ReturnedWithinBound == MinimizeReturned /\ CandidatesBounded

\* C36: minimize_patch_hunks terminates: a pass starts again only after a
\* drop, which leaves fewer hunks; it returns after the first pass that
\* went over every hunk and dropped none; and for a patch of H hunks it
\* has tried at most H * (H + 1) / 2 candidates when it returns, the number
\* tried never going down
C36_MinimizeTerminates ==
    /\ [][MinimizeRunning /\ op.pc = "loop" =>
             /\ op'.candidates >= op.candidates
             /\ op'.pc = "loop" /\ op'.k = 1 =>
                   HunkCount(op'.current_files) < HunkCount(op.current_files)
             /\ op'.pc = "returned" =>
                   op.k = HunkCount(op.current_files) + 1 /\ op'.current_files = op.current_files
             /\ op.k > HunkCount(op.current_files) => op'.pc = "returned"]_vars
    /\ (MinimizeRunning ~> ReturnedWithinBound)

\* a patch of two hunks or more on which every pass drops its last hunk
\* candidate or none, so that H * (H + 1) / 2 candidates are tried
C36_Witness ==
    /\ MinimizeReturned
    /\ InputHunks >= 2 /\ op.dropped >= 1
    /\ 2 * op.candidates = InputHunks * (InputHunks + 1)

\* the hunks of a patch in the order of its text, each with the paths of its file
RECURSIVE FileHunks(_, _)
FileHunks(files, n) ==
    IF n > Len(files) THEN <<>>
    ELSE [j \in 1..Len(files[n].hunks) |->
             [old_path |-> files[n].old_path, new_path |-> files[n].new_path,
              hunk |-> files[n].hunks[j]]]
         \o FileHunks(files, n + 1)

PatchHunks(patch_text) ==
    IF patch_text = <<>> THEN <<>> ELSE FileHunks(parse_unified_diff(patch_text).files, 1)

\* a can be had from b by leaving elements out
RECURSIVE IsSubsequence(_, _)
IsSubsequence(a, b) ==
    IF a = <<>> THEN TRUE
    ELSE IF b = <<>> THEN FALSE
    ELSE IF Head(a) = Head(b) THEN IsSubsequence(Tail(a), Tail(b))
    ELSE IsSubsequence(a, Tail(b))

\* no file of a temporary minimisation workspace is left
NoMinimizeWorkspace == \A loc \in DOMAIN fs : ~Under(<<MinimizeRoot[1]>>, loc)

\* the returned patch applies to a fresh copy of the baseline and the
\* verify command passes there
ReturnedPatchVerifies ==
    CandidatePasses(CandidateApplied(op.out,
                                     Merge(_copy_sandbox(fs, WorkspaceRoot, MinimizeRoot), fs),
                                     policy),
                    op.tgts)

\* C37: the patch minimize_patch_hunks returns is made of hunks of the
\* input patch, in their order; when a hunk was dropped it applies to a
\* fresh copy of the baseline and passes the verify command there; and no
\* temporary workspace is left after a candidate was tried
C37_MinimizedSubset ==
    /\ MinimizeRunning => NoMinimizeWorkspace
    /\ MinimizeReturned =>
          /\ IsSubsequence(PatchHunks(op.out), PatchHunks(op.input))
          /\ op.dropped >= 1 => ReturnedPatchVerifies

\* C35: create_sandbox picks the backend asked for: copy gives a copy;
\* git_worktree gives a worktree for a clean repository and an error for any
\* other workspace; auto gives a worktree for a clean repository and a copy
\* otherwise; container gives a copy run under the container runtime
C35_BackendSelection ==
    op.fn = "create_sandbox" =>
        /\ op.requested = "copy" =>
              op.out.err = "" /\ op.out.workspace_backend = "copy" /\ op.out.backend = "native"
        /\ op.requested = "git_worktree" =>
              IF op.variant = "repo_clean"
              THEN op.out.err = "" /\ op.out.workspace_backend = "git_worktree"
              ELSE op.out.err # ""
        /\ op.requested = "auto" =>
              /\ op.out.err = ""
              /\ op.out.workspace_backend =
                    IF op.variant = "repo_clean" THEN "git_worktree" ELSE "copy"
        /\ op.requested = "container" /\ op.has_runtime =>
              op.out.err = "" /\ op.out.workspace_backend = "copy" /\ op.out.backend = "container"

\* C26: the directory diff of a workspace tree and a sandbox tree, applied to
\* a copy of the workspace with apply_unified_diff, is accepted when there is
\* a difference and leaves a tree whose directory diff against the sandbox
\* is empty
C26_DirDiffReproduces ==
    op.fn = "diff_between_dirs" => op.rest = <<>> /\ (op.diff # <<>> => op.err = "")

----------------------------------------------------------------------------
(* The command policy on its own: a Policy as a caller constructs it, and  *)
(* calls of command_execution and of _run_targets under it.                *)

\* the command lines asked about
Commands == {"t1", "t2", "'t2'", "t2 x", "'t2' x"}

\* Policy(allowed_commands=..., allowed_argv=...)
CommandPolicies ==
    { [PolicyOf(<<StarStar>>, <<>>) EXCEPT !.allowed_commands = listed, !.allowed_argv = vectors] :
        listed \in {<<>>, <<"t1">>, <<"t2">>, <<"t1", "t2">>, <<"t1", "'t2'">>},
        vectors \in {<<>>, <<<<"t2">>>>, <<<<"t2", "x">>>>, <<<<"t1">>, <<"t2">>>>} }

\* the proof targets a round is run with
TargetLists == {<<"t1">>, <<"'t2'">>, <<"t1", "t2">>, <<"t1", "'t2'">>, <<"t2 x", "t1">>}

InitPolicy ==
    /\ fs \in {TreeAt(SandboxRoot, LineA), TreeAt(SandboxRoot, LineB)}
    /\ policy \in CommandPolicies
    /\ sandbox = SandboxOf("copy")
    /\ op = NoOp
    /\ SessionIdle
    /\ AttestIdle

CallCommandExecution ==
    /\ op.n < MaxCalls
    /\ \E cmd \in Commands :
          op' = [fn |-> "command_execution", cmd |-> cmd, out |-> command_execution(cmd, policy),
                 n |-> op.n + 1]
    /\ UNCHANGED <<fs, policy, sandbox, sessVars, attestVars>>

CallRunTargets ==
    /\ op.n < MaxCalls
    /\ \E tgts \in TargetLists :
          op' = [fn |-> "_run_targets", tgts |-> tgts,
                 out |-> _run_targets(tgts, fs, sandbox.root, 0, "",
                                      [n \in 1..Len(tgts) |-> FALSE], policy),
                 n |-> op.n + 1]
    /\ UNCHANGED <<fs, policy, sandbox, sessVars, attestVars>>

\* Config values: the lists of the policy empty or not, one or two proof
\* targets, the first target being allowed whenever commands are listed
Configs ==
    { [proof_targets |-> tgts,
       policy |-> [PolicyOf(allow, deny) EXCEPT !.allowed_commands = listed,
                                                !.minimize = minimize]] :
        tgts \in {<<"t1">>, <<"t1", "t2">>},
        listed \in {<<>>, <<"t1">>, <<"t1", "t2">>},
        allow \in {<<>>, <<StarStar>>, <<SrcGlob>>},
        deny \in {<<>>, <<SecretsGlob>>},
        minimize \in BOOLEAN }

\* a Config is written with config_to_dict and loaded again, the command of
\* its first proof target being the fallback command, as in replay
CallLoadConfig ==
    /\ op.n < MaxCalls
    /\ \E config \in Configs :
          op' = [fn |-> "load_config", config |-> config,
                 out |-> load_config_from_mapping(
                             config_to_dict(config.proof_targets, config.policy),
                             config.proof_targets[1]),
                 n |-> op.n + 1]
    /\ UNCHANGED <<fs, policy, sandbox, sessVars, attestVars>>

NextPolicy == CallCommandExecution \/ CallRunTargets \/ CallLoadConfig

SpecPolicy == InitPolicy /\ [][NextPolicy]_vars

\* the tokens of cmd are a vector of allowed_argv
TokenisesToAllowed(cmd) ==
    \E n \in 1..Len(policy.allowed_argv) : policy.allowed_argv[n] = shlex_split(cmd)

\* cmd is one of allowed_commands
Listed(cmd) == \E n \in 1..Len(policy.allowed_commands) : policy.allowed_commands[n] = cmd

\* the CommandResult files a call of _run_targets wrote
ResultFiles(written) == {k \in 1..Len(written) : written[k].i > 0}

\* C23: loading the mapping that config_to_dict produces of a Config gives
\* a Config equal to it
C23_ConfigRoundTrip == op.fn = "load_config" => op.out = op.config

----------------------------------------------------------------------------
(* The attestation module on its own: a bundle directory, a key, and calls *)
(* of create_attestation and verify_attestation between changes.           *)

\* the inputs: bytes, file names, keys, modes
MaxByte == 2

Raws == {<<>>} \cup {<<b>> : b \in 1..MaxByte}

BundleNames == {"repro.json", "attempts/attestation.json"}

KeyValues == {"", "k1", "k2"}

RequestedModes == {"none", "hmac-sha256", "x509"}

BundleDirs == UNION {[names -> Raws] : names \in SUBSET BundleNames}

\* the files of the directory other than attestation.json, with their bytes
BundleFiles(dir) == [rel \in DOMAIN dir \ {_ATTESTATION_FILENAME} |-> dir[rel]]

PatchIdle ==
    /\ fs = <<>>
    /\ policy = PolicyOf(<<StarStar>>, <<>>)
    /\ sandbox = SandboxOf("copy")
    /\ op = NoOp

InitAttest ==
    /\ bundle_dir \in BundleDirs
    /\ environ \in KeyValues
    /\ verdict = NoVerdict
    /\ created = NeverCreated
    /\ PatchIdle
    /\ SessionIdle

CreateAttestation ==
    /\ \E mode \in RequestedModes :
          LET r == create_attestation(bundle_dir, mode, environ)
          IN /\ bundle_dir' = r.dir
             /\ verdict' = [NoVerdict EXCEPT !.fn = "create_attestation", !.raised = r.raised]
             /\ created' = IF r.raised THEN created
                           ELSE [has |-> TRUE, files |-> BundleFiles(bundle_dir),
                                 key |-> environ, mode |-> mode]
    /\ UNCHANGED <<environ, patchVars, sessVars>>

\* somebody changes the bytes of a bundle file other than attestation.json
ChangeBytes ==
    /\ \E rel \in DOMAIN bundle_dir \ {_ATTESTATION_FILENAME} :
          \E raw \in Raws \ {bundle_dir[rel]} :
             bundle_dir' = [bundle_dir EXCEPT ![rel] = raw]
    /\ verdict' = NoVerdict
    /\ UNCHANGED <<environ, created, patchVars, sessVars>>

AddFile ==
    /\ \E rel \in BundleNames \ DOMAIN bundle_dir :
          \E raw \in Raws :
             bundle_dir' = [r \in DOMAIN bundle_dir \cup {rel} |->
                               IF r = rel THEN raw ELSE bundle_dir[r]]
    /\ verdict' = NoVerdict
    /\ UNCHANGED <<environ, created, patchVars, sessVars>>

RemoveFile ==
    /\ \E rel \in DOMAIN bundle_dir \ {_ATTESTATION_FILENAME} :
          bundle_dir' = [r \in DOMAIN bundle_dir \ {rel} |-> bundle_dir[r]]
    /\ verdict' = NoVerdict
    /\ UNCHANGED <<environ, created, patchVars, sessVars>>

SetKey ==
    /\ \E key \in KeyValues \ {environ} : environ' = key
    /\ verdict' = NoVerdict
    /\ UNCHANGED <<bundle_dir, created, patchVars, sessVars>>

VerifyAttestation ==
    /\ LET r == verify_attestation(bundle_dir, environ)
       IN verdict' = [fn |-> "verify_attestation", raised |-> FALSE, ok |-> r.ok,
                      content_valid |-> r.content_valid,
                      signature_valid |-> r.signature_valid]
    /\ UNCHANGED <<bundle_dir, environ, created, patchVars, sessVars>>

\* the signing parts a party can write that holds own_keys only: mode none,
\* the signing part that is in the file, and a signature of the statement
\* under each of its own keys
RewrittenSignings(saved, statement, own_keys) ==
    { [mode |-> "none", key_env |-> DefaultKeyEnv, signature |-> <<>>, key_id |-> <<>>],
      saved.signing }
    \cup { [mode |-> "hmac-sha256", key_env |-> DefaultKeyEnv,
            signature |-> hmac_new(k, _canonical_json_bytes(statement)),
            key_id |-> _sha256_bytes(k)] : k \in own_keys }

\* somebody who does not hold the key of the attestation rewrites
\* attestation.json: the statement stays or becomes that of the files as
\* they are now, with a signing part that can be written without the key.
\* op keeps what create_attestation had seen and signed.
RewriteAttestation ==
    /\ created.has /\ _ATTESTATION_FILENAME \in DOMAIN bundle_dir
    /\ \E statement \in { JsonLoads(bundle_dir[_ATTESTATION_FILENAME]).statement,
                          _statement_for_bundle(bundle_dir) } :
          \E signing \in RewrittenSignings(JsonLoads(bundle_dir[_ATTESTATION_FILENAME]), statement,
                                           KeyValues \ {"", created.key}) :
             bundle_dir' = [bundle_dir EXCEPT ![_ATTESTATION_FILENAME] =
                               JsonDumps([version |-> "pp-attestation/v1",
                                          statement |-> statement, signing |-> signing])]
    /\ op' = [fn |-> "rewrite_attestation", files |-> created.files, key |-> created.key,
              mode |-> created.mode, n |-> 0]
    /\ created' = NeverCreated
    /\ verdict' = NoVerdict
    /\ UNCHANGED <<environ, fs, policy, sandbox, sessVars>>

NextAttest ==
    CreateAttestation \/ ChangeBytes \/ AddFile \/ RemoveFile \/ SetKey \/ VerifyAttestation

\* an attested bundle in the hands of somebody who can change its files
\* and rewrite attestation.json
NextRewrite == CreateAttestation \/ ChangeBytes \/ RewriteAttestation \/ VerifyAttestation

SpecRewrite == InitAttest /\ [][NextRewrite]_vars

SpecAttest == InitAttest /\ [][NextAttest]_vars

Verified == verdict.fn = "verify_attestation"

\* C9: verify_attestation called after a successful create_attestation,
\* with the same key in the environment and every bundle file as it was,
\* returns ok = true with content_valid = true and signature_valid = true,
\* in mode none and in mode hmac-sha256
C9_CreateThenVerify ==
    Verified /\ created.has /\ BundleFiles(bundle_dir) = created.files /\ environ = created.key
        => verdict.ok /\ verdict.content_valid /\ verdict.signature_valid

\* a signed attestation of a bundle of two files was verified and accepted
C9_Witness ==
    /\ Verified /\ verdict.ok
    /\ created.has /\ created.mode = "hmac-sha256"
    /\ BundleFiles(bundle_dir) = created.files /\ environ = created.key
    /\ DOMAIN created.files = BundleNames

\* C10: once a bundle file other than attestation.json has other bytes
\* than create_attestation saw, or such a file was added or removed,
\* verify_attestation returns ok = false with content_valid = false, in
\* both signing modes
C10_ChangeDetected ==
    Verified /\ created.has /\ BundleFiles(bundle_dir) # created.files
        => ~verdict.ok /\ ~verdict.content_valid

\* a byte of repro.json was replaced by another one, the size staying the
\* same, and the verification of the signed bundle failed on the content only
C10_Witness ==
    /\ Verified /\ ~verdict.ok /\ ~verdict.content_valid /\ verdict.signature_valid
    /\ created.has /\ created.mode = "hmac-sha256"
    /\ DOMAIN BundleFiles(bundle_dir) = DOMAIN created.files
    /\ "repro.json" \in DOMAIN created.files
    /\ created.files["repro.json"] = <<1>> /\ bundle_dir["repro.json"] = <<2>>

\* C39: when a bundle was attested in mode hmac-sha256 and somebody without
\* the key has rewritten attestation.json since, verify_attestation with
\* the key of the attestation does not return ok = true for bundle files
\* that differ from those the attestation was made of
C39_NoForgeryWithoutKey ==
    /\ Verified /\ ~created.has
    /\ op.fn = "rewrite_attestation" /\ op.mode = "hmac-sha256" /\ environ = op.key
    /\ BundleFiles(bundle_dir) # op.files
    => ~verdict.ok

====
